---------------------------- MODULE Spec2Model ----------------------------
(***************************************************************************)
(* State-machine model of the KTX2 container decoder of gltf-vscode-ktx2.  *)
(*                                                                         *)
(*   - loadBasisModule : the lazily initialised, process-wide transcoder   *)
(*                       module (src/KTX2/docs/read.js 112-178)            *)
(*   - loadFzstd       : the Zstandard library loader (read.js 17-36)      *)
(*   - parseKTX2       : container parsing and supercompression            *)
(*                       resolution (read.js 200-510)                      *)
(*                                                                         *)
(* read.js holds a second, shorter parseKTX2 (699-764) whose container     *)
(* parsing is line for line that of 201-262 and which has no               *)
(* supercompression dispatch.  The model follows 200-510, the definition   *)
(* the viewer's use of isDecompressed / transcodedFormat relies on.        *)
(*                                                                         *)
(* Conventions.  A JavaScript value that may be null/undefined is held as  *)
(* a sequence: <<>> for absent, <<v>> for present.  Level i of the code    *)
(* (0-based) is levels[i + 1].  An unsigned 32-bit field whose full range  *)
(* matters is held as its two 16-bit halves [hi, lo], because 2^31 and     *)
(* above are not integers of the model checker.                            *)
(***************************************************************************)
EXTENDS Integers, Sequences, FiniteSets, TLC

(***************************************************************************)
(* Bounds of the model.                                                    *)
(***************************************************************************)
\* concurrent first callers of loadBasisModule
NumCallers == 3
\* largest levelCount header field drawn
MaxLevels == 3
\* largest level count the transcoding backend reports
MaxBackendLevels == 3
\* how many of the 12 identifier bytes an input may have altered
MaxAltered == 1
\* callers of the libktx transcoder
NumTranscodeCallers == 2

(***************************************************************************)
(* Program constants.                                                      *)
(***************************************************************************)
SUPERCOMPRESSION_NONE == 0
SUPERCOMPRESSION_BASIS_LZ == 1
SUPERCOMPRESSION_ZSTD == 2
SUPERCOMPRESSION_ZLIB == 3
\* Basis transcoder target format id of RGBA32
RGBA32 == 13
\* bytes of identifier
IDENTIFIER_BYTES == 12
\* 12 + 68: identifier plus header
MIN_FILE_BYTES == 80
\* three 64-bit fields per level index entry
LEVEL_ENTRY_BYTES == 24
\* bytes parseDFD reads from the DFD block
DFD_READ_BYTES == 28

KTX2_IDENTIFIER == <<171, 75, 84, 88, 32, 50, 48, 187, 13, 10, 26, 10>>

None == <<>>
Some(v) == <<v>>
Val(o) == o[1]

Max(a, b) == IF a >= b THEN a ELSE b
Min(a, b) == IF a <= b THEN a ELSE b

Callers == 1 .. NumCallers

VARIABLES
  \* ---- module-level state of read.js
  basisModulePromise,   \* "null" | "pending" | "fulfilled" | "rejected"
  BasisModule,          \* [kind, id, KTX2File]: null, the factory, or the module
  fzstdLoaded,          \* BOOLEAN
  \* ---- the executor of loadBasisModule's promise
  initPc,               \* "idle" | "loadScript" | "fetchWasm" | "instantiate" | "settled"
  scriptLoads,          \* number of loadScript(scriptUrl) calls
  instantiations,       \* number of BasisModule({wasmBinary}) calls
  \* ---- callers of loadBasisModule other than parseKTX2
  callerPc,             \* [Callers -> "idle" | "awaiting" | "got" | "failed"]
  callerGot,            \* [Callers -> module id received, 0 if none]
  \* ---- one activation of parseKTX2(arrayBuffer, device)
  bufLen,               \* arrayBuffer.byteLength
  ident,                \* first min(12, bufLen) bytes of the buffer
  pc,                   \* position in parseKTX2
  error,                \* kind of the error thrown, "" if none
  header, index, levels, dfd, kvd,
  branch,               \* branch of the supercompression dispatch taken
  i,                    \* loop variable of the level loops
  decompLog,            \* lengths returned by fzstdDecompress, in call order
  warnings,             \* levels (0-based) for which the size warning was logged
  basisFile,            \* [cls, opened, closes, deletes]: the backend file handle
  isKTX2File,
  transcoderLevelCount,
  \* ---- a caller that parses one buffer twice, against a fixed environment
  content,              \* what the bytes of the buffer hold
  oracle,               \* what the backend and the decompressor answer to each call
  round,                \* 0: no such caller, 1: first parse, 2: second parse
  first,                \* the ParsedTexture of the first parse
  \* ---- one call of a pure helper
  call,                 \* [fn, ...arguments]
  ret,                  \* its return value, absent before the call
  \* ---- the viewer (main.js): file selections and the texture on display
  features,             \* adapter.features: [bc, etc2, astc], absent without a viewer
  selected,             \* the files selected so far, in order
  loads,                \* the load started for each selected file: [pc, error, during]
  srcTex, srcView,      \* the texture on display and the texture its view was made of
  mipCount, mipSlider,  \* mip state of the UI
  currentMip,           \* the mip level the slider selected
  applied,              \* what the last run of applySelectedMip saw, absent before
  textures,             \* every texture created so far: [owner, format, mips, destroyed]
  uploads,              \* every writeTexture call so far: [texture, mipLevel, by]
  \* ---- the libktx transcoder (transcoder.js)
  ktxModule,            \* the module instance kept by initLibKTX, absent while null
  libktx,               \* window.LIBKTX: [defined, calls], absent without callers
  transcodes            \* [TranscodeCallers -> [fn, pc, token, m, texture, mips, error]]

loaderVars == <<basisModulePromise, BasisModule, initPc, scriptLoads, instantiations>>
callerVars == <<callerPc, callerGot>>
inputVars == <<bufLen, ident>>
containerVars == <<header, index, levels, dfd, kvd>>
resolverVars == <<branch, i, decompLog, warnings, basisFile, isKTX2File, transcoderLevelCount>>
parseVars == <<inputVars, pc, error, containerVars, resolverVars>>
sessionVars == <<content, oracle, round, first>>
fnVars == <<call, ret>>
viewVars == <<features, selected, loads, srcTex, srcView, mipCount, mipSlider, currentMip,
              applied, textures, uploads>>
ktxVars == <<ktxModule, libktx, transcodes>>
restVars == <<sessionVars, fnVars, viewVars, ktxVars>>
vars == <<loaderVars, fzstdLoaded, callerVars, parseVars, restVars>>

(***************************************************************************)
(* loadBasisModule (read.js 112-178)                                       *)
(***************************************************************************)
NullModule == [kind |-> "null", id |-> 0, KTX2File |-> FALSE]

\* A variant of the guard that lets every call start an initialization.
InitGuardMissing == FALSE

\* A variant of the guard that reuses only an initialization still in flight.
InitGuardOnlyPending == basisModulePromise = "pending"

\* line 113: if (basisModulePromise) return basisModulePromise;
InitGuard == basisModulePromise # "null"

\* One call of loadBasisModule up to its return: either the cached promise,
\* or a new promise whose executor runs synchronously up to
\* `await loadScript(scriptUrl)` (lines 115-125).
LoadBasisModule ==
  IF InitGuard
  THEN UNCHANGED loaderVars
  ELSE /\ basisModulePromise' = "pending"
       /\ initPc' = "loadScript"
       /\ scriptLoads' = scriptLoads + 1
       /\ UNCHANGED <<BasisModule, instantiations>>

\* reject(err): lines 140, 170, 173
RejectInit ==
  /\ basisModulePromise' = "rejected"
  /\ initPc' = "settled"

\* script.onload, then lines 127-147: the export is found and the WASM fetch starts
ScriptLoaded ==
  /\ initPc = "loadScript"
  /\ BasisModule' = [kind |-> "factory", id |-> 0, KTX2File |-> FALSE]
  /\ initPc' = "fetchWasm"
  /\ UNCHANGED <<basisModulePromise, scriptLoads, instantiations>>

\* script.onload, but no function export is found (lines 139-141)
ScriptLoadedNoExport ==
  /\ initPc = "loadScript"
  /\ RejectInit
  /\ UNCHANGED <<BasisModule, scriptLoads, instantiations>>

\* script.onerror (line 107), caught at line 172
ScriptError ==
  /\ initPc = "loadScript"
  /\ RejectInit
  /\ UNCHANGED <<BasisModule, scriptLoads, instantiations>>

\* the fetch resolves with r.ok: BasisModule({wasmBinary}) is called (line 153)
WasmFetched ==
  /\ initPc = "fetchWasm"
  /\ instantiations' = instantiations + 1
  /\ initPc' = "instantiate"
  /\ UNCHANGED <<basisModulePromise, BasisModule, scriptLoads>>

\* the fetch fails or r.ok is false (line 148), caught at line 172
WasmFetchFailed ==
  /\ initPc = "fetchWasm"
  /\ RejectInit
  /\ UNCHANGED <<BasisModule, scriptLoads, instantiations>>

\* the factory's promise fulfils: lines 155-169
ModuleInstantiated ==
  /\ initPc = "instantiate"
  /\ \E k \in BOOLEAN :
       BasisModule' = [kind |-> "module", id |-> instantiations, KTX2File |-> k]
  /\ basisModulePromise' = "fulfilled"
  /\ initPc' = "settled"
  /\ UNCHANGED <<scriptLoads, instantiations>>

\* the factory's promise rejects: line 170
ModuleInstantiateFailed ==
  /\ initPc = "instantiate"
  /\ RejectInit
  /\ UNCHANGED <<BasisModule, scriptLoads, instantiations>>

LoaderStep ==
  \/ ScriptLoaded
  \/ ScriptLoadedNoExport
  \/ ScriptError
  \/ WasmFetched
  \/ WasmFetchFailed
  \/ ModuleInstantiated
  \/ ModuleInstantiateFailed

(***************************************************************************)
(* Callers of loadBasisModule: `await loadBasisModule()`                   *)
(***************************************************************************)
CallerCalls(c) ==
  /\ callerPc[c] = "idle"
  /\ LoadBasisModule
  /\ callerPc' = [callerPc EXCEPT ![c] = "awaiting"]
  /\ UNCHANGED <<callerGot, fzstdLoaded, parseVars, restVars>>

CallerResumes(c) ==
  /\ callerPc[c] = "awaiting"
  /\ basisModulePromise = "fulfilled"
  /\ callerPc' = [callerPc EXCEPT ![c] = "got"]
  /\ callerGot' = [callerGot EXCEPT ![c] = BasisModule.id]
  /\ UNCHANGED <<loaderVars, fzstdLoaded, parseVars, restVars>>

CallerFails(c) ==
  /\ callerPc[c] = "awaiting"
  /\ basisModulePromise = "rejected"
  /\ callerPc' = [callerPc EXCEPT ![c] = "failed"]
  /\ UNCHANGED <<callerGot, loaderVars, fzstdLoaded, parseVars, restVars>>

LoaderEvent == LoaderStep /\ UNCHANGED <<fzstdLoaded, callerVars, parseVars, restVars>>

NoParse ==
  /\ bufLen = 0 /\ ident = <<>> /\ pc = "off" /\ error = ""
  /\ header = None /\ index = None /\ levels = <<>> /\ dfd = None /\ kvd = None
  /\ branch = "none" /\ i = 0 /\ decompLog = <<>> /\ warnings = {}
  /\ basisFile = [cls |-> "none", opened |-> FALSE, closes |-> 0, deletes |-> 0]
  /\ isKTX2File = FALSE /\ transcoderLevelCount = 0

\* no caller parses twice, no helper is called, the viewer is not running
NoSession == content = None /\ oracle = None /\ round = 0 /\ first = None
NoCall == call = None /\ ret = None
NoView ==
  /\ features = None
  /\ selected = <<>> /\ loads = <<>> /\ srcTex = None /\ srcView = None
  /\ mipCount = 0 /\ mipSlider = None /\ textures = <<>> /\ uploads = {}
  /\ currentMip = 0 /\ applied = None

NoKtx == ktxModule = None /\ libktx = None /\ transcodes = <<>>

FreshLoader ==
  /\ basisModulePromise = "null"
  /\ BasisModule = NullModule
  /\ initPc = "idle"
  /\ scriptLoads = 0
  /\ instantiations = 0

InitLoad ==
  /\ FreshLoader
  /\ fzstdLoaded = FALSE
  /\ callerPc = [c \in Callers |-> "idle"]
  /\ callerGot = [c \in Callers |-> 0]
  /\ NoParse
  /\ NoSession /\ NoCall /\ NoView /\ NoKtx

NextLoad ==
  \/ LoaderEvent
  \/ \E c \in Callers : CallerCalls(c)
  \/ \E c \in Callers : CallerResumes(c)
  \/ \E c \in Callers : CallerFails(c)

\* Several first callers of loadBasisModule, in every interleaving with the
\* browser events that drive the initialization.
SpecLoad == InitLoad /\ [][NextLoad]_vars


(***************************************************************************)
(* 32-bit arithmetic of the level dimensions (read.js 247-248)             *)
(***************************************************************************)
U32(hi, lo) == [hi |-> hi, lo |-> lo]

\* ToInt32 of an unsigned 32-bit number: what JavaScript's >> does to its
\* left operand before shifting.
ToInt32(x) ==
  IF x.hi >= 32768 THEN (x.hi - 65536) * 65536 + x.lo ELSE x.hi * 65536 + x.lo

\* x >> n of JavaScript: sign-propagating shift of ToInt32(x) by n mod 32.
JsShr(x, n) == ToInt32(x) \div (2 ^ (n % 32))

\* Math.max(1, header.levelCount || 1), line 239
LevelCount(h) == Max(1, IF h.levelCount = 0 THEN 1 ELSE h.levelCount)

\* lines 245-249: the descriptor pushed for level n (0-based) from its index entry
LevelDescriptor(h, e, n) ==
  [ byteOffset |-> e.byteOffset,
    byteLength |-> e.byteLength,
    uncompressedByteLength |-> e.uncompressedByteLength,
    width |-> Max(1, JsShr(h.pixelWidth, n)),
    height |-> Max(1, JsShr(h.pixelHeight, n)),
    isDecompressed |-> FALSE,
    decompressedData |-> None,
    transcodedFormat |-> None ]

(***************************************************************************)
(* Inputs: what the bytes of the buffer may hold                           *)
(***************************************************************************)
\* buffer lengths around the 12-byte and 80-byte limits and the level index
BufLens == {0, 11, 12, 79, 80, 104, 256}

RECURSIVE AlteredIdentifiers(_)
\* KTX2_IDENTIFIER with at most k of its bytes altered
AlteredIdentifiers(k) ==
  IF k = 0 THEN {KTX2_IDENTIFIER}
  ELSE LET prev == AlteredIdentifiers(k - 1) IN
       prev \cup { [s EXCEPT ![p] = (s[p] + 1) % 256] :
                     s \in prev, p \in 1 .. IDENTIFIER_BYTES }

\* the first min(12, len) bytes a buffer of length len may start with
IdentInputs(len) ==
  { SubSeq(s, 1, Min(IDENTIFIER_BYTES, len)) : s \in AlteredIdentifiers(MaxAltered) }

\* base dimensions: an ordinary pair, and a pair with bit 31 set
DimInputs ==
  { <<U32(0, 5), U32(0, 4)>>, <<U32(32768, 0), U32(65535, 65535)>> }

\* supercompression scheme codes: the four named ones and two others
SchemeInputs == {0, 1, 2, 3, 4, 1000}

HeaderInputs ==
  { [ vkFormat |-> vk, typeSize |-> 1,
      pixelWidth |-> d[1], pixelHeight |-> d[2], pixelDepth |-> 0,
      layerCount |-> 0, faceCount |-> 1, levelCount |-> lc,
      supercompressionScheme |-> sc, offset |-> 48 ] :
      vk \in {0, 37}, d \in DimInputs, lc \in 0 .. MaxLevels, sc \in SchemeInputs }

\* The block index together with what the DFD and KVD blocks hold:
\* colorModel / bytesPlane0 of the DFD, the entries of the KVD.
BlockInputs ==
  { [ dfdByteOffset |-> 0, dfdByteLength |-> 0, kvdByteOffset |-> 0,
      kvdByteLength |-> 0, colorModel |-> 0, bytesPlane0 |-> 0, kvEntries |-> <<>> ],
    [ dfdByteOffset |-> 152, dfdByteLength |-> 44, kvdByteOffset |-> 0,
      kvdByteLength |-> 0, colorModel |-> 166, bytesPlane0 |-> 16, kvEntries |-> <<>> ],
    [ dfdByteOffset |-> 152, dfdByteLength |-> 44, kvdByteOffset |-> 196,
      kvdByteLength |-> 4, colorModel |-> 160, bytesPlane0 |-> 8,
      kvEntries |-> << [kvByteLength |-> 0, key |-> "", value |-> "", nul |-> FALSE] >> ],
    [ dfdByteOffset |-> 152, dfdByteLength |-> 8, kvdByteOffset |-> 0,
      kvdByteLength |-> 0, colorModel |-> 166, bytesPlane0 |-> 16, kvEntries |-> <<>> ] }

\* lines 229-236
BlockIndex(b) ==
  [ dfdByteOffset |-> b.dfdByteOffset, dfdByteLength |-> b.dfdByteLength,
    kvdByteOffset |-> b.kvdByteOffset, kvdByteLength |-> b.kvdByteLength,
    sgdByteOffset |-> 0, sgdByteLength |-> 0, offset |-> 80 ]

\* level index entries of n levels: the payloads lie one after the other from
\* byte 200; in the second choice the last payload lies outside the buffer
LevelIndexInputs(n) ==
  { [k \in 1 .. n |->
       [ byteOffset |-> IF far /\ k = n THEN 4096 ELSE 200 + 8 * (k - 1),
         byteLength |-> 8,
         uncompressedByteLength |-> 16 ]] : far \in BOOLEAN }

\* The 64-bit little-endian fields of a file whose level index holds es, by
\* byte offset: the KTX2 layout puts the supercompression-global-data pair at
\* 64 and 72 and level k's byte offset, byte length and uncompressed length at
\* 80 + 24k, 88 + 24k and 96 + 24k.
LevelIndexBytes(es) ==
  [ off \in { 64 + 8 * j : j \in 0 .. 3 * Len(es) + 1 } |->
      IF off < 80 THEN 0
      ELSE LET k == (off - 80) \div 24
               f == ((off - 80) % 24) \div 8
           IN CASE f = 0 -> es[k + 1].byteOffset
                [] f = 1 -> es[k + 1].byteLength
                [] OTHER -> es[k + 1].uncompressedByteLength ]

\* new Uint8Array(buffer, off, len) / new DataView(buffer, off, len) succeed
InBuffer(off, len) == off + len <= bufLen

(***************************************************************************)
(* parseDFD (read.js 513-538) and parseKVD (read.js 541-559)               *)
(***************************************************************************)
\* the DataView is created and all 28 bytes are read without a RangeError
DFDReadable(b) ==
  /\ InBuffer(b.dfdByteOffset, b.dfdByteLength)
  /\ b.dfdByteLength >= DFD_READ_BYTES

ParseDFD(b) == [colorModel |-> b.colorModel, bytesPlane0 |-> b.bytesPlane0]

\* lines 550-555: kv[key] = value when the entry holds a NUL; kv is an object,
\* held as a set of <<key, value>> pairs with one pair per key
KVPut(kv, e) ==
  IF e.nul THEN { p \in kv : p[1] # e.key } \cup {<<e.key, e.value>>} ELSE kv

\* A variant of the cursor step without the alignment padding.
KVDAdvanceNoPad(offset, n) == offset + 4 + n

\* lines 545, 556, 557: the cursor after an entry of n bytes
KVDAdvance(offset, n) == offset + 4 + n + ((4 - (n % 4)) % 4)

RECURSIVE ParseKVD(_, _, _, _)
\* the loop of parseKVD over the entries es, from cursor offset, into kv
ParseKVD(es, offset, limit, kv) ==
  IF offset >= limit \/ es = <<>> THEN kv
  ELSE LET e == Head(es) IN
       IF e.kvByteLength = 0 THEN kv
       ELSE ParseKVD(Tail(es), KVDAdvance(offset, e.kvByteLength), limit, KVPut(kv, e))

\* the reads of parseKVD stay inside the buffer
KVDReadable(b) == InBuffer(b.kvdByteOffset, b.kvdByteLength)

(***************************************************************************)
(* parseKTX2, container part (read.js 201-262)                             *)
(***************************************************************************)
\* throw: the activation ends with an error and returns nothing
Throw(kind) ==
  /\ pc' = "threw"
  /\ error' = kind

\* A variant of the identifier check that leaves the last byte out.
IdentifierMismatchShort == \E p \in 1 .. IDENTIFIER_BYTES - 1 : ident[p] # KTX2_IDENTIFIER[p]

\* lines 206-208: some byte of the identifier differs
IdentifierMismatch == \E p \in 1 .. IDENTIFIER_BYTES : ident[p] # KTX2_IDENTIFIER[p]

\* what the bytes of the buffer after the identifier may hold: the header, the
\* block index with its blocks, the level index
Contents ==
  UNION { { [h |-> h, b |-> b, u64 |-> LevelIndexBytes(es)] :
              b \in BlockInputs, es \in LevelIndexInputs(LevelCount(h)) } :
          h \in HeaderInputs }

\* the cursor `offset` after the 9 header fields (lines 215-226)
HeaderEnd == IDENTIFIER_BYTES + 9 * 4

\* ... and after the block index: 4 fields of 32 bits, 2 of 64 (lines 229-236)
IndexEnd == HeaderEnd + 4 * 4 + 2 * 8

\* A variant of the cursor that leaves out the supercompression-global-data pair.
LevelEntryOffsetNoSgd(k) == HeaderEnd + 4 * 4 + LEVEL_ENTRY_BYTES * k

\* the cursor at the start of iteration k of the loop at line 241
LevelEntryOffset(k) == IndexEnd + LEVEL_ENTRY_BYTES * k

\* lines 242-244: three getBigUint64 reads, the cursor advancing by 8 each
ReadLevelEntry(u64, off) ==
  [ byteOffset |-> u64[off],
    byteLength |-> u64[off + 8],
    uncompressedByteLength |-> u64[off + 16] ]

\* lines 201-262 on a buffer whose bytes hold c
ParseContainerOf(c) ==
  /\ pc = "start"
  /\ IF bufLen < IDENTIFIER_BYTES
     THEN \* line 204: new Uint8Array(arrayBuffer, 0, 12) on a shorter buffer
          Throw("RangeError") /\ UNCHANGED containerVars
     ELSE IF IdentifierMismatch
     THEN Throw("InvalidIdentifier") /\ UNCHANGED containerVars
     ELSE IF bufLen < MIN_FILE_BYTES
     THEN Throw("Truncated") /\ UNCHANGED containerVars
     ELSE LET h == c.h
              b == c.b
              n == LevelCount(h)
              es == [k \in 1 .. n |-> ReadLevelEntry(c.u64, LevelEntryOffset(k - 1))]
          IN
            IF ~InBuffer(LevelEntryOffset(0), n * LEVEL_ENTRY_BYTES)
            THEN \* line 242: getBigUint64 past the end of the buffer
                 Throw("RangeError") /\ UNCHANGED containerVars
            ELSE IF b.dfdByteLength > 0 /\ ~DFDReadable(b)
            THEN Throw("RangeError") /\ UNCHANGED containerVars
            ELSE IF b.kvdByteLength > 0 /\ ~KVDReadable(b)
            THEN Throw("RangeError") /\ UNCHANGED containerVars
            ELSE   /\ header' = Some(h)
                   /\ index' = Some(BlockIndex(b))
                   /\ levels' = [k \in 1 .. n |-> LevelDescriptor(h, es[k], k - 1)]
                   /\ dfd' = IF b.dfdByteLength > 0 THEN Some(ParseDFD(b)) ELSE None
                   /\ kvd' = IF b.kvdByteLength > 0
                             THEN Some(ParseKVD(b.kvEntries, b.kvdByteOffset,
                                                b.kvdByteOffset + b.kvdByteLength, {}))
                             ELSE None
                   /\ pc' = "dispatch"
                   /\ error' = ""
  /\ UNCHANGED <<inputVars, resolverVars, loaderVars, fzstdLoaded, callerVars, restVars>>

ParseContainer == \E c \in Contents : ParseContainerOf(c)

(***************************************************************************)
(* parseKTX2, supercompression dispatch (read.js 266, 290, 352, 502-506)   *)
(***************************************************************************)
\* A variant of the dispatch that tests the format code before the scheme.
StrategyFormatFirst(h) ==
  IF h.vkFormat = 0 THEN "rawBasis"
  ELSE IF h.supercompressionScheme = SUPERCOMPRESSION_ZSTD THEN "zstd"
  ELSE IF h.supercompressionScheme = SUPERCOMPRESSION_BASIS_LZ THEN "basisLZ"
  ELSE IF h.supercompressionScheme = SUPERCOMPRESSION_ZLIB THEN "zlib"
  ELSE IF h.supercompressionScheme # SUPERCOMPRESSION_NONE THEN "unknown"
  ELSE "passthrough"

\* A variant of the dispatch without the ZLIB branch.
StrategyNoZlib(h) ==
  IF h.supercompressionScheme = SUPERCOMPRESSION_ZSTD THEN "zstd"
  ELSE IF h.vkFormat = 0 /\ h.supercompressionScheme = SUPERCOMPRESSION_NONE
  THEN "rawBasis"
  ELSE IF h.supercompressionScheme = SUPERCOMPRESSION_BASIS_LZ THEN "basisLZ"
  ELSE IF h.supercompressionScheme # SUPERCOMPRESSION_NONE THEN "unknown"
  ELSE "passthrough"

\* the if / else-if chain, in the order of the code
Strategy(h) ==
  IF h.supercompressionScheme = SUPERCOMPRESSION_ZSTD THEN "zstd"
  ELSE IF h.vkFormat = 0 /\ h.supercompressionScheme = SUPERCOMPRESSION_NONE
  THEN "rawBasis"
  ELSE IF h.supercompressionScheme = SUPERCOMPRESSION_BASIS_LZ THEN "basisLZ"
  ELSE IF h.supercompressionScheme = SUPERCOMPRESSION_ZLIB THEN "zlib"
  ELSE IF h.supercompressionScheme # SUPERCOMPRESSION_NONE THEN "unknown"
  ELSE "passthrough"

Dispatch ==
  /\ pc = "dispatch"
  /\ branch' = Strategy(Val(header))
  /\ CASE branch' = "zstd" -> pc' = "loadFzstd" /\ error' = error
       [] branch' \in {"rawBasis", "basisLZ"} -> pc' = "loadBasis" /\ error' = error
       [] branch' = "zlib" -> Throw("UnsupportedSupercompression")
       [] branch' = "unknown" -> Throw("UnknownSupercompression")
       [] OTHER -> pc' = "returned" /\ error' = error
  /\ UNCHANGED <<inputVars, containerVars, i, decompLog, warnings, basisFile,
                 isKTX2File, transcoderLevelCount, loaderVars, fzstdLoaded, callerVars, restVars>>

(***************************************************************************)
(* loadFzstd (read.js 17-36) and the Zstandard path (read.js 266-288)      *)
(***************************************************************************)
\* lengths fzstdDecompress may return for a level
DecompressedLens == {8, 16}

\* await loadFzstd(): line 18 returns at once when the library is loaded,
\* otherwise the script element is appended and the call waits (lines 21-28)
LoadFzstd ==
  /\ pc = "loadFzstd"
  /\ IF fzstdLoaded
     THEN pc' = "zstdLevel" /\ i' = 0
     ELSE pc' = "fzstdScript" /\ i' = i
  /\ UNCHANGED <<error, inputVars, containerVars, branch, decompLog, warnings, basisFile,
                 isKTX2File, transcoderLevelCount, loaderVars, fzstdLoaded, callerVars, restVars>>

\* script.onload with fzstd defined (lines 30-32)
FzstdScriptLoaded ==
  /\ pc = "fzstdScript"
  /\ fzstdLoaded' = TRUE
  /\ pc' = "zstdLevel" /\ i' = 0
  /\ UNCHANGED <<error, inputVars, containerVars, branch, decompLog, warnings, basisFile,
                 isKTX2File, transcoderLevelCount, loaderVars, callerVars, restVars>>

\* script.onerror (line 26), or onload without fzstd (line 34)
FzstdScriptFailed ==
  /\ pc = "fzstdScript"
  /\ \E kind \in {"FzstdLoadFailed", "FzstdUnavailable"} : Throw(kind)
  /\ UNCHANGED <<inputVars, containerVars, resolverVars, loaderVars, fzstdLoaded,
                 callerVars, restVars>>

\* A variant of the loop increment that stays on the same level.
SameLevel == i

\* i++ of the level loops (lines 270, 321, 430)
NextLevel == i + 1

\* A variant that keeps the decompressed bytes only when their length is the
\* declared one.
ZstdStoreIfMatching(level, n) ==
  IF n = level.uncompressedByteLength
  THEN [level EXCEPT !.decompressedData = Some(n), !.isDecompressed = TRUE]
  ELSE level

\* A variant that also takes the decompressed length as the level's byteLength.
ZstdStoreResized(level, n) ==
  [level EXCEPT !.decompressedData = Some(n), !.isDecompressed = TRUE,
                !.byteLength = n]

\* lines 278-279
ZstdStore(level, n) ==
  [level EXCEPT !.decompressedData = Some(n), !.isDecompressed = TRUE]

\* line 282
SizeMismatch(level, n) == n # level.uncompressedByteLength

\* fzstdDecompress throws
DecompressRaises == -1

\* what fzstdDecompress may do for a level: return that many bytes, or throw
DecompressAnswers == DecompressedLens \cup {DecompressRaises}

\* one iteration of the loop at line 270 that decompresses level i, the
\* decompressor answering a
ZstdLevelAns(a) ==
  /\ pc = "zstdLevel"
  /\ i < Len(levels)
  /\ LET level == levels[i + 1] IN
     IF ~InBuffer(level.byteOffset, level.byteLength)
     THEN \* line 272: new Uint8Array over a range outside the buffer
          /\ Throw("RangeError")
          /\ UNCHANGED <<levels, i, decompLog, warnings>>
     ELSE IF a # DecompressRaises
     THEN /\ levels' = [levels EXCEPT ![i + 1] = ZstdStore(level, a)]
          /\ decompLog' = Append(decompLog, a)
          /\ warnings' = IF SizeMismatch(level, a) THEN warnings \cup {i}
                         ELSE warnings
          /\ i' = NextLevel
          /\ UNCHANGED <<pc, error>>
     ELSE \* fzstdDecompress throws: rethrown at line 286
          /\ Throw("DecompressFailed")
          /\ UNCHANGED <<levels, i, decompLog, warnings>>
  /\ UNCHANGED <<inputVars, header, index, dfd, kvd, branch, basisFile, isKTX2File,
                 transcoderLevelCount, loaderVars, fzstdLoaded, callerVars, restVars>>

ZstdLevel == \E a \in DecompressAnswers : ZstdLevelAns(a)

\* the loop ends and line 509 returns
ZstdDone ==
  /\ pc = "zstdLevel"
  /\ i >= Len(levels)
  /\ pc' = "returned"
  /\ UNCHANGED <<error, inputVars, containerVars, resolverVars, loaderVars, fzstdLoaded,
                 callerVars, restVars>>

(***************************************************************************)
(* parseKTX2, the Basis-family paths: raw Basis (read.js 290-350) and      *)
(* BasisLZ (read.js 352-500).  The backend is the environment: each call   *)
(* returns any value of its type, or raises.                               *)
(***************************************************************************)
\* sizes getImageTranscodedSizeInBytes may report for a level that has data
TranscodedSizes == {64}

NoFile == [cls |-> "none", opened |-> FALSE, closes |-> 0, deletes |-> 0]

\* basisFile.close(); basisFile.delete();
Released(f) == [f EXCEPT !.closes = f.closes + 1, !.deletes = f.deletes + 1]

\* await loadBasisModule(), the call (lines 295, 365)
CallLoadBasis ==
  /\ pc = "loadBasis"
  /\ LoadBasisModule
  /\ pc' = "awaitBasis"
  /\ UNCHANGED <<error, inputVars, containerVars, resolverVars, fzstdLoaded, callerVars, restVars>>

\* await loadBasisModule(), resumed with the module
AwaitBasisOk ==
  /\ pc = "awaitBasis"
  /\ basisModulePromise = "fulfilled"
  /\ pc' = "open"
  /\ UNCHANGED <<error, inputVars, containerVars, resolverVars, loaderVars, fzstdLoaded,
                 callerVars, restVars>>

\* await loadBasisModule(), resumed with the rejection
AwaitBasisFailed ==
  /\ pc = "awaitBasis"
  /\ basisModulePromise = "rejected"
  /\ Throw("ModuleInitFailed")
  /\ UNCHANGED <<inputVars, containerVars, resolverVars, loaderVars, fzstdLoaded,
                 callerVars, restVars>>

\* what the two constructors may do: a.ktx2 for new BasisModule.KTX2File,
\* a.basis for new BasisModule.BasisFile
OpenAnswers == [ktx2 : {"ok", "throws"}, basis : {"ok", "throws"}]

\* lines 297-306 and 367-383: the file handle is constructed
OpenFileAns(a) ==
  /\ pc = "open"
  /\ IF BasisModule.KTX2File /\ a.ktx2 = "ok"
     THEN \* new BasisModule.KTX2File(fileUint8) succeeds
          /\ basisFile' = [NoFile EXCEPT !.cls = "KTX2File", !.opened = TRUE]
          /\ pc' = "startTranscoding" /\ error' = error
     ELSE IF BasisModule.KTX2File /\ branch = "rawBasis"
     THEN \* it throws; only the BasisLZ path catches that (lines 372-376)
          /\ Throw("ConstructorRaised")
          /\ UNCHANGED basisFile
     ELSE IF a.basis = "ok"
     THEN \* new BasisModule.BasisFile(fileUint8) succeeds
          /\ basisFile' = [NoFile EXCEPT !.cls = "BasisFile", !.opened = TRUE]
          /\ pc' = "startTranscoding" /\ error' = error
     ELSE \* it throws
          /\ Throw("ConstructorRaised")
          /\ UNCHANGED basisFile
  /\ UNCHANGED <<inputVars, containerVars, branch, i, decompLog, warnings, isKTX2File,
                 transcoderLevelCount, loaderVars, fzstdLoaded, callerVars, restVars>>

OpenFile == \E a \in OpenAnswers : OpenFileAns(a)

\* what basisFile.startTranscoding() may do
StartAnswers == {"true", "false", "raises"}

\* A variant of the reaction to startTranscoding() returning false: the parse
\* goes on to the level loop.
StartFailedIgnored ==
  /\ isKTX2File' = (BasisModule.KTX2File /\ basisFile.cls = "KTX2File")
  /\ pc' = IF branch = "basisLZ" THEN "numImages" ELSE "numLevels"
  /\ UNCHANGED <<error, basisFile>>

\* lines 308-312 and 386-390: the handle is released and the parse fails
StartFailed ==
  /\ basisFile' = Released(basisFile)
  /\ Throw("TranscodeInitFailed")
  /\ UNCHANGED isKTX2File

\* lines 308-314 and 386-393
StartTranscodingAns(a) ==
  /\ pc = "startTranscoding"
  /\ CASE a = "true" ->
            /\ isKTX2File' = (BasisModule.KTX2File /\ basisFile.cls = "KTX2File")
            /\ pc' = IF branch = "basisLZ" THEN "numImages" ELSE "numLevels"
            /\ UNCHANGED <<error, basisFile>>
       [] a = "false" -> StartFailed
       [] OTHER ->
            \* it raises
            /\ Throw("StartTranscodingRaised")
            /\ UNCHANGED <<basisFile, isKTX2File>>
  /\ UNCHANGED <<inputVars, containerVars, branch, i, decompLog, warnings,
                 transcoderLevelCount, loaderVars, fzstdLoaded, callerVars, restVars>>

StartTranscoding == \E a \in StartAnswers : StartTranscodingAns(a)

\* what basisFile.getNumImages() may do ("positive" also stands for a
\* backend without that function)
ImagesAnswers == {"positive", "zero", "raises"}

\* lines 395-407 (BasisLZ path only)
NumImagesAns(a) ==
  /\ pc = "numImages"
  /\ IF isKTX2File \/ a = "positive"
     THEN \* KTX2File, or getNumImages is no function, or it returns a count > 0
          /\ pc' = "numLevels"
          /\ UNCHANGED <<error, basisFile>>
     ELSE IF a = "zero"
     THEN \* getNumImages() returns 0
          /\ basisFile' = Released(basisFile)
          /\ Throw("NoImages")
     ELSE \* getNumImages() raises
          /\ Throw("NumImagesRaised")
          /\ UNCHANGED basisFile
  /\ UNCHANGED <<inputVars, containerVars, branch, i, decompLog, warnings, isKTX2File,
                 transcoderLevelCount, loaderVars, fzstdLoaded, callerVars, restVars>>

NumImages == \E a \in ImagesAnswers : NumImagesAns(a)

\* getLevels() / getNumLevels(imageIndex) raises
LevelCountRaises == -1

\* what the level-count query may do: return a count, or raise
LevelCountAnswers == (0 .. MaxBackendLevels) \cup {LevelCountRaises}

\* lines 318 and 414-425: the backend's own level count
NumLevelsAns(a) ==
  /\ pc = "numLevels"
  /\ IF a # LevelCountRaises
     THEN /\ transcoderLevelCount' = a
          /\ pc' = "level" /\ i' = 0
          /\ UNCHANGED error
     ELSE IF branch = "basisLZ"
     THEN \* the query raises: caught in the BasisLZ path, which keeps the default 1
          /\ transcoderLevelCount' = 1
          /\ pc' = "level" /\ i' = 0
          /\ UNCHANGED error
     ELSE \* the query raises in the raw path
          /\ Throw("LevelCountRaised")
          /\ UNCHANGED <<transcoderLevelCount, i>>
  /\ UNCHANGED <<inputVars, containerVars, branch, decompLog, warnings, basisFile,
                 isKTX2File, loaderVars, fzstdLoaded, callerVars, restVars>>

NumLevels == \E a \in LevelCountAnswers : NumLevelsAns(a)

\* line 358: const isUASTC = (dfd && dfd.colorModel === 166)
IsUASTC == dfd # None /\ Val(dfd).colorModel = 166

\* line 437: the branch of the BasisLZ level loop an iteration takes, the one
\* commented "UASTC path" (438-456) or the one commented "ETC1S path" (458-473)
LevelPath == IF isKTX2File THEN "uastc" ELSE "etc1s"

\* lines 319, 428: Math.min(levels.length, transcoderLevelCount)
SafeLevelCount == Min(Len(levels), transcoderLevelCount)

\* A variant of the loop's reaction to a failed level: go on with the next one.
AfterFailedLevelContinue == pc' = "level" /\ i' = i + 1

\* break (lines 327, 333, 345, 450, 468, 480, 490)
AfterFailedLevel == pc' = "close" /\ i' = i

\* lines 340-342 and 485-487
StoreTranscoded(level, size, format) ==
  [level EXCEPT !.isDecompressed = TRUE,
                !.decompressedData = Some(size),
                !.transcodedFormat = Some(format)]

\* line 409: getBasisTargetFormatForGPU(device), lines 184-198
GetBasisTargetFormatForGPU == RGBA32

\* what the backend may do for one level: transcode it, report size 0,
\* return failure from transcodeImage, or raise in either call
LevelAnswers == {"ok", "sizeZero", "statusFalse", "sizeRaises", "transcodeRaises"}

\* one iteration of the level loop (lines 321-347, 430-492) for level i, the
\* backend answering a
TranscodeLevelAns(a) ==
  /\ pc = "level"
  /\ i < SafeLevelCount
  /\ CASE a = "ok" ->
            \* the size is not 0 and transcodeImage returns true
            \E size \in TranscodedSizes :
              /\ levels' = [levels EXCEPT ![i + 1] =
                              StoreTranscoded(levels[i + 1], size,
                                IF branch = "basisLZ" /\ ~isKTX2File
                                THEN GetBasisTargetFormatForGPU ELSE RGBA32)]
              /\ i' = NextLevel
              /\ UNCHANGED <<pc, error>>
       [] a \in {"sizeZero", "statusFalse"} ->
            \* break at 327, 333, 345, 450, 468, 490
            /\ AfterFailedLevel
            /\ UNCHANGED <<levels, error>>
       [] a \in {"sizeRaises", "transcodeRaises"} /\ branch = "basisLZ" ->
            \* caught at line 478
            /\ AfterFailedLevel
            /\ UNCHANGED <<levels, error>>
       [] a = "sizeRaises" /\ branch = "rawBasis" ->
            /\ Throw("SizeQueryRaised")
            /\ UNCHANGED <<levels, i>>
       [] a = "transcodeRaises" /\ branch = "rawBasis" ->
            /\ Throw("TranscodeRaised")
            /\ UNCHANGED <<levels, i>>
  /\ UNCHANGED <<inputVars, header, index, dfd, kvd, branch, decompLog, warnings,
                 basisFile, isKTX2File, transcoderLevelCount, loaderVars, fzstdLoaded,
                 callerVars, restVars>>

TranscodeLevel == \E a \in LevelAnswers : TranscodeLevelAns(a)

\* the loop condition fails
LevelsDone ==
  /\ pc = "level"
  /\ i >= SafeLevelCount
  /\ pc' = "close"
  /\ UNCHANGED <<error, inputVars, containerVars, resolverVars, loaderVars, fzstdLoaded,
                 callerVars, restVars>>

\* lines 349-350 and 494-495, then the return at line 509
CloseFile ==
  /\ pc = "close"
  /\ basisFile' = Released(basisFile)
  /\ pc' = "returned"
  /\ UNCHANGED <<error, inputVars, containerVars, branch, i, decompLog, warnings,
                 isKTX2File, transcoderLevelCount, loaderVars, fzstdLoaded, callerVars, restVars>>

(***************************************************************************)
(* The per-level accessor (read.js 561-567)                                *)
(***************************************************************************)
\* new Uint8Array(arrayBuffer, byteOffset, byteLength) on a buffer of len bytes
RawSlice(len, level) ==
  IF level.byteOffset + level.byteLength <= len
  THEN [kind |-> "slice", byteOffset |-> level.byteOffset, length |-> level.byteLength]
  ELSE [kind |-> "RangeError", byteOffset |-> 0, length |-> 0]

\* the decoded payload attached to a level, of the length the model keeps
Payload(level) ==
  [kind |-> "payload", byteOffset |-> 0, length |-> Val(level.decompressedData)]

\* getLevelData(arrayBuffer, level), lines 562-567
GetLevelData(len, level) ==
  IF level.isDecompressed /\ level.decompressedData # None
  THEN Payload(level)
  ELSE RawSlice(len, level)

\* getLevelData(arrayBuffer, level) as declared a second time, lines 816-818
GetLevelDataSecond(len, level) == RawSlice(len, level)

\* The file declares getLevelData twice and exports the name twice (688, 987):
\* which declaration a caller gets depends on how the file is loaded.
GetLevelDataDeclarations == {"562", "816"}

\* the caller reads level k of the texture parseKTX2 returned, through
\* declaration d of the accessor
CallGetLevelData(k, d) ==
  /\ pc = "returned"
  /\ ret = None
  /\ k < Len(levels)
  /\ call' = Some([fn |-> "getLevelData", level |-> k, declaration |-> d])
  /\ ret' = Some(IF d = "562" THEN GetLevelData(bufLen, levels[k + 1])
                 ELSE GetLevelDataSecond(bufLen, levels[k + 1]))
  /\ UNCHANGED <<loaderVars, fzstdLoaded, callerVars, parseVars, sessionVars, viewVars,
                 ktxVars>>

(***************************************************************************)
(* One parse of one buffer                                                 *)
(***************************************************************************)
\* states the loader may be in when a parse starts: never called, settled
\* with a module (with or without the KTX2File class), or settled rejected
LoaderStates ==
  { [promise |-> "null", module |-> NullModule, pc |-> "idle", loads |-> 0, insts |-> 0],
    [promise |-> "rejected", module |-> NullModule, pc |-> "settled", loads |-> 1,
     insts |-> 0] }
  \cup
  { [promise |-> "fulfilled", module |-> [kind |-> "module", id |-> 1, KTX2File |-> k],
     pc |-> "settled", loads |-> 1, insts |-> 1] : k \in BOOLEAN }

InitParse ==
  /\ \E l \in LoaderStates :
       /\ basisModulePromise = l.promise
       /\ BasisModule = l.module
       /\ initPc = l.pc
       /\ scriptLoads = l.loads
       /\ instantiations = l.insts
  /\ fzstdLoaded \in BOOLEAN
  /\ callerPc = [c \in Callers |-> "idle"]
  /\ callerGot = [c \in Callers |-> 0]
  /\ bufLen \in BufLens
  /\ ident \in IdentInputs(bufLen)
  /\ pc = "start" /\ error = ""
  /\ header = None /\ index = None /\ levels = <<>> /\ dfd = None /\ kvd = None
  /\ branch = "none" /\ i = 0 /\ decompLog = <<>> /\ warnings = {}
  /\ basisFile = NoFile
  /\ isKTX2File = FALSE /\ transcoderLevelCount = 0
  /\ NoSession /\ NoCall /\ NoView /\ NoKtx

NextParse ==
  \/ ParseContainer
  \/ Dispatch
  \/ LoadFzstd
  \/ FzstdScriptLoaded
  \/ FzstdScriptFailed
  \/ ZstdLevel
  \/ ZstdDone
  \/ CallLoadBasis
  \/ LoaderEvent
  \/ AwaitBasisOk
  \/ AwaitBasisFailed
  \/ OpenFile
  \/ StartTranscoding
  \/ NumImages
  \/ NumLevels
  \/ TranscodeLevel
  \/ LevelsDone
  \/ CloseFile
  \/ \E k \in 0 .. MaxLevels - 1 : \E d \in GetLevelDataDeclarations :
       CallGetLevelData(k, d)

\* One activation of parseKTX2 on any input buffer, with any behaviour of the
\* script loader, the decompressor and the transcoding backend, and then one
\* read of a level of the result.
SpecParse == InitParse /\ [][NextParse]_vars

(***************************************************************************)
(* What parseKTX2 hands back                                               *)
(***************************************************************************)
Done == pc \in {"returned", "threw"}

\* line 509: return { header, index, levels, dfd, kvd }; nothing when it threw
ParsedTexture ==
  IF pc = "returned"
  THEN Some([header |-> Val(header), index |-> Val(index), levels |-> levels,
             dfd |-> dfd, kvd |-> kvd])
  ELSE None

Decoded(l) == l.isDecompressed /\ l.decompressedData # None
Bare(l) == ~l.isDecompressed /\ l.decompressedData = None /\ l.transcodedFormat = None

BasisFamily == branch \in {"rawBasis", "basisLZ"}

(***************************************************************************)
(* A caller that parses the same buffer twice in a row (parseKTX2,         *)
(* read.js 200-510, called again on the same ArrayBuffer).  The bytes of   *)
(* the buffer and the answers of the decompressor and of the transcoding   *)
(* backend are fixed when the session starts, so both parses read the same *)
(* bytes and get the same answer to the same call.  What the first parse   *)
(* leaves behind is the module-level state: basisModulePromise,            *)
(* BasisModule, fzstdLoaded.                                               *)
(***************************************************************************)
LevelIndices == 0 .. MaxLevels - 1

\* the backend answers "ok" for the first k levels and a for the next one
LevelOracle(k, a) == [n \in LevelIndices |-> IF n < k THEN "ok" ELSE a]

DefaultOracle ==
  [ open |-> [ktx2 |-> "ok", basis |-> "ok"],
    start |-> "true",
    images |-> "positive",
    levelCount |-> 1,
    level |-> LevelOracle(MaxLevels, "ok"),
    zstd |-> [n \in LevelIndices |-> 16] ]

\* answers of the decompressor, one per level
ZstdOracles ==
  { [DefaultOracle EXCEPT !.zstd = z] : z \in [LevelIndices -> DecompressAnswers] }

\* answers of the backend; an answer that ends the parse leaves the later
\* calls unmade, so the later answers are the default ones
BasisOracles ==
  { [DefaultOracle EXCEPT !.open = a] : a \in OpenAnswers }
  \cup { [DefaultOracle EXCEPT !.start = a] : a \in StartAnswers }
  \cup { [DefaultOracle EXCEPT !.images = a] : a \in ImagesAnswers }
  \cup { [DefaultOracle EXCEPT !.levelCount = n, !.level = LevelOracle(k, a)] :
           n \in LevelCountAnswers, k \in 0 .. MaxLevels, a \in LevelAnswers }

OraclesFor(c) ==
  CASE Strategy(c.h) = "zstd" -> ZstdOracles
    [] Strategy(c.h) \in {"rawBasis", "basisLZ"} -> BasisOracles
    [] OTHER -> {DefaultOracle}

\* length of the buffers the session parses
SessionBufLen == 256

\* buffers that pass the container part of the parse
SessionContents ==
  { c \in Contents :
      /\ c.h.pixelWidth.hi = 0
      /\ c.h.supercompressionScheme \in {0, 1, 2}
      /\ c.b.dfdByteLength \in {0, 44}
      /\ \A off \in DOMAIN c.u64 : c.u64[off] < SessionBufLen }

InitSession ==
  /\ \E l \in LoaderStates :
       /\ l.promise # "rejected"
       /\ basisModulePromise = l.promise
       /\ BasisModule = l.module
       /\ initPc = l.pc
       /\ scriptLoads = l.loads
       /\ instantiations = l.insts
  /\ fzstdLoaded \in BOOLEAN
  /\ callerPc = [c \in Callers |-> "idle"]
  /\ callerGot = [c \in Callers |-> 0]
  /\ bufLen = SessionBufLen
  /\ ident = KTX2_IDENTIFIER
  /\ pc = "start" /\ error = ""
  /\ header = None /\ index = None /\ levels = <<>> /\ dfd = None /\ kvd = None
  /\ branch = "none" /\ i = 0 /\ decompLog = <<>> /\ warnings = {}
  /\ basisFile = NoFile
  /\ isKTX2File = FALSE /\ transcoderLevelCount = 0
  /\ \E c \in SessionContents :
       /\ content = Some(c)
       /\ \E o \in OraclesFor(c) : oracle = Some(o)
  /\ round = 1
  /\ first = None
  /\ NoCall /\ NoView /\ NoKtx

\* the second call of parseKTX2 on the same buffer, after the first returned
ParseAgain ==
  /\ round = 1
  /\ pc = "returned"
  /\ first' = ParsedTexture
  /\ round' = 2
  /\ pc' = "start" /\ error' = ""
  /\ header' = None /\ index' = None /\ levels' = <<>> /\ dfd' = None /\ kvd' = None
  /\ branch' = "none" /\ i' = 0 /\ decompLog' = <<>> /\ warnings' = {}
  /\ basisFile' = NoFile
  /\ isKTX2File' = FALSE /\ transcoderLevelCount' = 0
  /\ UNCHANGED <<inputVars, content, oracle, loaderVars, fzstdLoaded, callerVars,
                 fnVars, viewVars, ktxVars>>

NextSession ==
  \/ ParseContainerOf(Val(content))
  \/ Dispatch
  \/ LoadFzstd
  \/ FzstdScriptLoaded
  \/ FzstdScriptFailed
  \/ ZstdLevelAns(Val(oracle).zstd[i])
  \/ ZstdDone
  \/ CallLoadBasis
  \/ LoaderEvent
  \/ AwaitBasisOk
  \/ AwaitBasisFailed
  \/ OpenFileAns(Val(oracle).open)
  \/ StartTranscodingAns(Val(oracle).start)
  \/ NumImagesAns(Val(oracle).images)
  \/ NumLevelsAns(Val(oracle).levelCount)
  \/ TranscodeLevelAns(Val(oracle).level[i])
  \/ LevelsDone
  \/ CloseFile
  \/ ParseAgain

\* Two parses of one buffer in a row, with a backend and a decompressor that
\* give the same answers both times.
SpecSession == InitSession /\ [][NextSession]_vars

(***************************************************************************)
(* The format table and its DFD correction (read.js 822-949).  A field a   *)
(* descriptor object does not have is 0 here: the code only tests such     *)
(* fields for truthiness.                                                  *)
(***************************************************************************)
Block(f, bw, bh, bpb) ==
  [ format |-> f, blockWidth |-> bw, blockHeight |-> bh, bytesPerBlock |-> bpb,
    bytesPerPixel |-> 0, sourceChannels |-> 0, sourceBytesPerPixel |-> 0 ]

Pixel(f, bpp, channels, sbpp) ==
  [ format |-> f, blockWidth |-> 0, blockHeight |-> 0, bytesPerBlock |-> 0,
    bytesPerPixel |-> bpp, sourceChannels |-> channels, sourceBytesPerPixel |-> sbpp ]

\* const formats = { ... }, lines 824-905
formats ==
  (131 :> Block("bc1-rgba-unorm", 4, 4, 8)) @@
  (132 :> Block("bc1-rgba-unorm-srgb", 4, 4, 8)) @@
  (135 :> Block("bc2-rgba-unorm", 4, 4, 16)) @@
  (136 :> Block("bc2-rgba-unorm-srgb", 4, 4, 16)) @@
  (137 :> Block("bc3-rgba-unorm", 4, 4, 16)) @@
  (138 :> Block("bc3-rgba-unorm-srgb", 4, 4, 16)) @@
  (139 :> Block("bc4-r-unorm", 4, 4, 8)) @@
  (140 :> Block("bc4-r-snorm", 4, 4, 8)) @@
  (141 :> Block("bc5-rg-unorm", 4, 4, 16)) @@
  (142 :> Block("bc5-rg-snorm", 4, 4, 16)) @@
  (143 :> Block("bc6h-rgb-ufloat", 4, 4, 16)) @@
  (144 :> Block("bc6h-rgb-float", 4, 4, 16)) @@
  (145 :> Block("bc7-rgba-unorm", 4, 4, 16)) @@
  (146 :> Block("bc7-rgba-unorm-srgb", 4, 4, 16)) @@
  (148 :> Block("etc2-rgb8unorm", 4, 4, 8)) @@
  (149 :> Block("etc2-rgb8unorm-srgb", 4, 4, 8)) @@
  (152 :> Block("etc2-rgb8unorm", 4, 4, 8)) @@
  (153 :> Block("etc2-rgb8a1unorm", 4, 4, 8)) @@
  (154 :> Block("etc2-rgba8unorm", 4, 4, 16)) @@
  (157 :> Block("astc-4x4-unorm", 4, 4, 16)) @@
  (159 :> Block("astc-5x4-unorm", 5, 4, 16)) @@
  (161 :> Block("astc-5x5-unorm", 5, 5, 16)) @@
  (163 :> Block("astc-6x5-unorm", 6, 5, 16)) @@
  (165 :> Block("astc-6x6-unorm", 6, 6, 16)) @@
  (158 :> Block("astc-4x4-unorm-srgb", 4, 4, 16)) @@
  (160 :> Block("astc-4x4-unorm-srgb", 4, 4, 16)) @@
  (162 :> Block("astc-5x5-unorm-srgb", 5, 5, 16)) @@
  (164 :> Block("astc-6x5-unorm-srgb", 6, 5, 16)) @@
  (166 :> Block("astc-6x6-unorm-srgb", 6, 6, 16)) @@
  (23 :> Pixel("rgba8unorm", 4, 3, 0)) @@
  (24 :> Pixel("rgba8unorm-srgb", 4, 3, 0)) @@
  (29 :> Pixel("rgba8unorm", 4, 3, 0)) @@
  (37 :> Pixel("rgba8unorm", 4, 0, 0)) @@
  (43 :> Pixel("rgba8unorm-srgb", 4, 0, 0)) @@
  (97 :> Pixel("rgba16float", 8, 0, 0)) @@
  (109 :> Pixel("rgba16float", 8, 0, 16)) @@
  (100 :> Pixel("rg11b10ufloat", 4, 0, 0)) @@
  (122 :> Pixel("rg11b10ufloat", 4, 0, 0)) @@
  (99 :> Pixel("rgb9e5ufloat", 4, 0, 0)) @@
  (123 :> Pixel("rgb9e5ufloat", 4, 0, 0))

\* formats[vkFormat] || null, line 907
VkFormatToWebGPU(vkFormat) ==
  IF vkFormat \in DOMAIN formats THEN Some(formats[vkFormat]) ELSE None

\* A variant of the correction that takes the DFD's size and keeps the tag.
ApplyDFDCorrectionsSizeOnly(formatInfo, d, vkFormat) ==
  IF formatInfo = None \/ d = None THEN formatInfo
  ELSE IF Val(formatInfo).blockWidth # 0 /\ Val(d).bytesPlane0 # 0
          /\ Val(d).bytesPlane0 # Val(formatInfo).bytesPerBlock
  THEN Some([Val(formatInfo) EXCEPT !.bytesPerBlock = Val(d).bytesPlane0])
  ELSE formatInfo

\* applyDFDCorrections(formatInfo, dfd, vkFormat), lines 914-949
ApplyDFDCorrections(formatInfo, d, vkFormat) ==
  IF formatInfo = None \/ d = None THEN formatInfo
  ELSE LET f == Val(formatInfo)
           dfdBytesPerBlock == Val(d).bytesPlane0
       IN
       \* line 918: blockWidth and bytesPlane[0] are tested for truthiness
       IF f.blockWidth # 0 /\ dfdBytesPerBlock # 0 /\ dfdBytesPerBlock # f.bytesPerBlock
       THEN Some([f EXCEPT
              !.bytesPerBlock = dfdBytesPerBlock,
              !.format =
                IF vkFormat >= 148 /\ vkFormat <= 154
                THEN IF dfdBytesPerBlock = 8
                     THEN IF Val(d).colorModel = 160 THEN "etc2-rgb8unorm"
                          ELSE IF Val(d).colorModel = 162 THEN "etc2-rgb8a1unorm"
                          ELSE "etc2-rgb8unorm"
                     ELSE IF dfdBytesPerBlock = 16 THEN "etc2-rgba8unorm"
                     ELSE @
                ELSE @])
       ELSE formatInfo

(***************************************************************************)
(* Row padding for upload (main.js 44-74)                                  *)
(***************************************************************************)
\* Math.ceil(a / b) for non-negative a and positive b
Ceil(a, b) == (a + b - 1) \div b

\* the row-pitch alignment written into the code
ROW_ALIGN == 256

\* A variant of the copy that packs the rows one after the other.
CopyRowsPacked(src, rowBytes, aligned, rows) ==
  [ n \in 1 .. aligned * rows |-> IF n <= Len(src) THEN src[n] ELSE 0 ]

\* new Uint8Array(aligned * rows), then for each row y
\* dst.set(src.subarray(y * rowBytes, y * rowBytes + rowBytes), y * aligned)
CopyRows(src, rowBytes, aligned, rows) ==
  [ n \in 1 .. aligned * rows |->
      LET y == (n - 1) \div aligned
          x == (n - 1) % aligned
      IN IF x < rowBytes /\ y * rowBytes + x < Len(src)
         THEN src[y * rowBytes + x + 1]
         ELSE 0 ]

\* padRows(src, width, height, bytesPerPixel), lines 45-56; `fresh` tells
\* a newly allocated buffer from src itself
PadRows(src, width, height, bytesPerPixel) ==
  LET rowStride == width * bytesPerPixel
      aligned == Ceil(rowStride, ROW_ALIGN) * ROW_ALIGN
  IN IF aligned = rowStride
     THEN [data |-> src, bytesPerRow |-> rowStride, rowsPerImage |-> 0, fresh |-> FALSE]
     ELSE [data |-> CopyRows(src, rowStride, aligned, height),
           bytesPerRow |-> aligned, rowsPerImage |-> 0, fresh |-> TRUE]

\* Math.max(1, Math.ceil(extent / blockExtent)), lines 59-60
Blocks(extent, blockExtent) == Max(1, Ceil(extent, blockExtent))

\* padBlockRowsBC(src, width, height, bytesPerBlock, blockWidth, blockHeight),
\* lines 58-74
PadBlockRowsBC(src, width, height, bytesPerBlock, blockWidth, blockHeight) ==
  LET wBlocks == Blocks(width, blockWidth)
      hBlocks == Blocks(height, blockHeight)
      rowBytes == wBlocks * bytesPerBlock
      aligned == Ceil(rowBytes, ROW_ALIGN) * ROW_ALIGN
  IN IF aligned = rowBytes
     THEN [data |-> src, bytesPerRow |-> rowBytes, rowsPerImage |-> hBlocks,
           fresh |-> FALSE]
     ELSE [data |-> CopyRows(src, rowBytes, aligned, hBlocks),
           bytesPerRow |-> aligned, rowsPerImage |-> hBlocks, fresh |-> TRUE]

(***************************************************************************)
(* float32ToFloat16 (main.js 561-582).  A 32-bit pattern is held as its    *)
(* three fields [sign, exp, mant] (1, 8 and 23 bits), a 16-bit result as   *)
(* an integer.                                                             *)
(***************************************************************************)
Pow2(n) == 2 ^ n

\* float32ToFloat16(val), lines 561-582
Float32ToFloat16(x) ==
  LET sign == x.sign                   \* (x >> 31) & 0x1
      exp == x.exp - 112               \* ((x >> 23) & 0xFF) - 112
      mant == x.mant \div Pow2(13)     \* (x >> 13) & 0x3FF
  IN IF exp <= 0
     THEN IF exp < -10 THEN sign * Pow2(15)
          ELSE sign * Pow2(15) + ((mant + Pow2(10)) \div Pow2(1 - exp))
     ELSE IF exp >= 31
     THEN sign * Pow2(15) + 31 * Pow2(10)
     ELSE sign * Pow2(15) + exp * Pow2(10) + mant

(***************************************************************************)
(* Calls of the pure helpers on inputs drawn from bounded sets             *)
(***************************************************************************)
\* 32-bit patterns: zero and binary32 subnormals, values below, at and in the
\* binary16 subnormal range, normal values, values beyond the largest
\* binary16 value, infinity; mantissas at, just below and just above a
\* rounding tie
Float32Inputs ==
  [ sign : {0, 1},
    exp : {0, 1, 101, 102, 103, 112, 113, 127, 142, 143, 254, 255},
    mant : {0, 1, 4095, 4096, 4097, 8191, 8192, 12288, 4194304, 8388607} ]

Float16Calls == { [fn |-> "float32ToFloat16", x |-> x] : x \in Float32Inputs }

CallFloat32ToFloat16 ==
  /\ call # None /\ Val(call).fn = "float32ToFloat16"
  /\ ret = None
  /\ ret' = Some(Float32ToFloat16(Val(call).x))
  /\ UNCHANGED <<call, ktxVars, loaderVars, fzstdLoaded, callerVars, parseVars, sessionVars,
                 viewVars>>

\* DFDs as parseDFD returns them (colorModel, bytesPlane[0]), and none
DfdInputs ==
  {None} \cup { Some([colorModel |-> m, bytesPlane0 |-> b]) :
                 m \in {0, 160, 162, 166}, b \in {0, 4, 8, 16} }

\* every code of the table and some codes outside it
FormatCodes == DOMAIN formats \cup {0, 147, 150, 151, 9999}

\* n source bytes, none of them 0
SrcBytes(n) == [k \in 1 .. n |-> ((k * 7) % 255) + 1]

ApplyCalls ==
  { [fn |-> "applyDFDCorrections", formatInfo |-> VkFormatToWebGPU(vk), dfd |-> d,
     vkFormat |-> vk, again |-> FALSE] : vk \in FormatCodes, d \in DfdInputs }

PadRowsCalls ==
  { [fn |-> "padRows", width |-> w, height |-> h, bytesPerPixel |-> b] :
      w \in {0, 1, 3, 64, 65, 128}, h \in 0 .. MaxLevels, b \in {1, 3, 4, 8, 16} }

PadBlockCalls ==
  { [fn |-> "padBlockRowsBC", width |-> w, height |-> h, bytesPerBlock |-> b,
     blockWidth |-> bw, blockHeight |-> bh] :
      w \in {0, 1, 4, 5, 64, 65, 128}, h \in {0, 1, 4, 9}, b \in {8, 16},
      bw \in {4, 5, 6}, bh \in {4, 5} }

\* the source buffer of a padding call: as many bytes as the call reads
PadSrc(c) ==
  IF c.fn = "padRows" THEN SrcBytes(c.width * c.bytesPerPixel * c.height)
  ELSE SrcBytes(Blocks(c.width, c.blockWidth) * c.bytesPerBlock
                  * Blocks(c.height, c.blockHeight))

CallApplyDFDCorrections ==
  /\ call # None /\ Val(call).fn = "applyDFDCorrections"
  /\ ret = None
  /\ ret' = Some(ApplyDFDCorrections(Val(call).formatInfo, Val(call).dfd,
                                     Val(call).vkFormat))
  /\ UNCHANGED <<call, ktxVars, loaderVars, fzstdLoaded, callerVars, parseVars, sessionVars,
                 viewVars>>

\* the corrected descriptor is passed through the correction once more
CallApplyDFDCorrectionsAgain ==
  /\ call # None /\ Val(call).fn = "applyDFDCorrections"
  /\ ret # None /\ ~Val(call).again
  /\ call' = Some([Val(call) EXCEPT !.formatInfo = Val(ret), !.again = TRUE])
  /\ ret' = Some(ApplyDFDCorrections(Val(ret), Val(call).dfd, Val(call).vkFormat))
  /\ UNCHANGED <<loaderVars, fzstdLoaded, callerVars, parseVars, sessionVars, viewVars,
                 ktxVars>>

CallPadRows ==
  /\ call # None /\ Val(call).fn = "padRows"
  /\ ret = None
  /\ ret' = Some(PadRows(PadSrc(Val(call)), Val(call).width, Val(call).height,
                         Val(call).bytesPerPixel))
  /\ UNCHANGED <<call, ktxVars, loaderVars, fzstdLoaded, callerVars, parseVars, sessionVars,
                 viewVars>>

CallPadBlockRowsBC ==
  /\ call # None /\ Val(call).fn = "padBlockRowsBC"
  /\ ret = None
  /\ ret' = Some(PadBlockRowsBC(PadSrc(Val(call)), Val(call).width, Val(call).height,
                                Val(call).bytesPerBlock, Val(call).blockWidth,
                                Val(call).blockHeight))
  /\ UNCHANGED <<call, ktxVars, loaderVars, fzstdLoaded, callerVars, parseVars, sessionVars,
                 viewVars>>

InitHelpers ==
  /\ FreshLoader
  /\ fzstdLoaded = FALSE
  /\ callerPc = [c \in Callers |-> "idle"]
  /\ callerGot = [c \in Callers |-> 0]
  /\ NoParse /\ NoSession /\ NoView /\ NoKtx
  /\ \E c \in ApplyCalls \cup PadRowsCalls \cup PadBlockCalls \cup Float16Calls :
       call = Some(c)
  /\ ret = None

NextHelpers ==
  \/ CallApplyDFDCorrections
  \/ CallApplyDFDCorrectionsAgain
  \/ CallPadRows
  \/ CallPadBlockRowsBC
  \/ CallFloat32ToFloat16

\* One call of applyDFDCorrections (and a second one on its result), padRows,
\* padBlockRowsBC or float32ToFloat16.
SpecHelpers == InitHelpers /\ [][NextHelpers]_vars

(***************************************************************************)
(* The viewer (main.js): the file input's change handler (879-912),        *)
(* loadKTX2_ToTexture (596-876), loadImageToTexture (513-559) and the mip  *)
(* controls (484-491, 981-988).  Each load is an async function: it runs   *)
(* up to its next await in one step.  An await of a promise that is        *)
(* already settled (createMipImages, which awaits nothing) resumes in a    *)
(* microtask, before any event or any other settlement is delivered; the   *)
(* other awaits resume in any order.  Textures are numbered in the order   *)
(* of creation; srcTex and srcView hold such numbers.                      *)
(***************************************************************************)
\* the earlier and the later of two selections
Loads == {1, 2}

\* adapter.features.has(...) for the three compression features, lines 202, 674, 708, 715
FeatureSets == [bc : BOOLEAN, etc2 : BOOLEAN, astc : BOOLEAN]

\* the shapes of a texture that are not 2D: array, cubemap, 3D
ShapeInputs ==
  { [pixelDepth |-> 0, faceCount |-> 1, layerCount |-> 2],
    [pixelDepth |-> 0, faceCount |-> 6, layerCount |-> 0],
    [pixelDepth |-> 2, faceCount |-> 1, layerCount |-> 0] }

\* the files a user may select: .ktx2 files by what their header holds (2D
\* ones of several formats, schemes and level counts, and one file of each
\* other shape), and other images by the mip count of their size
KTX2Files ==
  { [kind |-> "ktx2", vkFormat |-> vk, supercompressionScheme |-> sc,
     pixelDepth |-> 0, faceCount |-> 1, layerCount |-> 0, levelCount |-> lc] :
      vk \in {0, 37, 145, 147, 152, 157, 9999},
      sc \in {SUPERCOMPRESSION_NONE, SUPERCOMPRESSION_ZSTD},
      lc \in {1, 2} }
  \cup
  { [kind |-> "ktx2", vkFormat |-> 37, supercompressionScheme |-> SUPERCOMPRESSION_NONE,
     pixelDepth |-> sh.pixelDepth, faceCount |-> sh.faceCount,
     layerCount |-> sh.layerCount, levelCount |-> 1] : sh \in ShapeInputs }

ImageFiles == { [kind |-> "image", levels |-> n] : n \in {1, 3} }

ViewFiles == KTX2Files \cup ImageFiles

\* What `await window.parseKTX2(buf, device)` can give for a file: a throw
\* (a buffer cut short, an unsupported scheme), or a texture whose level 0 is
\* decoded or bare, as the branch of the dispatch allows; the payload of a
\* bare level may lie outside the buffer ("bareOutside"), which parseKTX2 does
\* not look at.
ParseOutcomes(f) ==
  {"threw"} \cup
  ( CASE Strategy(f) \in {"zstd", "rawBasis", "basisLZ"} -> {"decoded", "bare", "bareOutside"}
      [] Strategy(f) = "passthrough" -> {"bare", "bareOutside"}
      [] OTHER -> {} )

\* levels[0] of the returned texture: the fields line 625 and 628 read
Level0(f, outcome) ==
  [ isDecompressed |-> outcome = "decoded",
    transcodedFormat |->
      IF outcome = "decoded" /\ Strategy(f) \in {"rawBasis", "basisLZ"}
      THEN Some(GetBasisTargetFormatForGPU) ELSE None ]

\* wgpuFormat.startsWith('etc2') / ('astc') over the tags the code can produce
StartsWithEtc2(fmt) ==
  fmt \in {"etc2-rgb8unorm", "etc2-rgb8unorm-srgb", "etc2-rgb8a1unorm", "etc2-rgba8unorm"}

StartsWithAstc(fmt) ==
  fmt \in { formats[vk].format : vk \in 157 .. 166 }

\* lines 608-718 of loadKTX2_ToTexture: the shape test, the three format
\* paths and the feature guards; gives the error thrown ("" if none) and the
\* format the texture is created with
ResolveFormat(f, level0, feat) ==
  LET is2D == f.pixelDepth = 0 /\ f.faceCount = 1
      path ==
        IF level0.isDecompressed
        THEN \* switch (tf), lines 631-664
             IF level0.transcodedFormat = Some(6) THEN [error |-> "", format |-> "bc7-rgba-unorm"]
             ELSE IF level0.transcodedFormat = Some(1) THEN [error |-> "", format |-> "bc3-rgba-unorm"]
             ELSE IF level0.transcodedFormat = Some(0) THEN [error |-> "", format |-> "bc1-rgba-unorm"]
             ELSE [error |-> "", format |-> "rgba8unorm"]
        ELSE IF f.vkFormat >= 147 /\ f.vkFormat <= 153 /\ feat.etc2
        THEN [error |-> "",
              format |-> IF f.vkFormat \in {152, 153} THEN "etc2-rgba8unorm"
                         ELSE "etc2-rgb8unorm"]
        ELSE IF VkFormatToWebGPU(f.vkFormat) = None
        THEN [error |-> "UnsupportedFormat", format |-> ""]
        ELSE [error |-> "", format |-> Val(VkFormatToWebGPU(f.vkFormat)).format]
  IN IF ~is2D THEN [error |-> "Not2D", format |-> ""]
     ELSE IF path.error # "" THEN path
     ELSE IF StartsWithEtc2(path.format) /\ ~feat.etc2
     THEN [error |-> "ETC2Unsupported", format |-> ""]
     ELSE IF StartsWithAstc(path.format) /\ ~feat.astc
     THEN [error |-> "ASTCUnsupported", format |-> ""]
     ELSE path

InFlight(l) ==
  l <= Len(loads) /\ loads[l].pc \notin {"done", "failed"}

\* no load is waiting on the already settled promise of createMipImages
NoMicrotaskPending ==
  \A l \in 1 .. Len(loads) : loads[l].pc # "mipImages"

\* the catch of the change handler, lines 907-911: the failure is logged
Fail(l, kind) ==
  loads' = [loads EXCEPT ![l] = [@ EXCEPT !.pc = "failed", !.error = kind]]

\* A variant of a throw before line 723 in which the texture on display has
\* already been destroyed.
KeepDisplayDestroyed ==
  /\ textures' = [textures EXCEPT ![Val(srcTex)].destroyed = TRUE]
  /\ UNCHANGED <<srcTex, srcView, mipCount, mipSlider, currentMip, applied, uploads>>

\* a throw of loadKTX2_ToTexture before line 723: nothing has been assigned
KeepDisplay ==
  UNCHANGED <<srcTex, srcView, mipCount, mipSlider, currentMip, applied, textures, uploads>>

\* srcTex?.destroy?.(); srcTex = device.createTexture(...); srcView = srcTex.createView()
CreateSrcTex(l, fmt, mips) ==
  /\ textures' = Append([textures EXCEPT ![Val(srcTex)].destroyed = TRUE],
                        [owner |-> l, format |-> fmt, mips |-> mips, destroyed |-> FALSE])
  /\ srcTex' = Some(Len(textures) + 1)
  /\ srcView' = Some(Len(textures) + 1)

\* mipCount = n; currentMip = 0; mipSlider.min = 0;
\* mipSlider.max = Math.max(0, mipCount - 1)
SetMipState(n) ==
  /\ mipCount' = n
  /\ currentMip' = 0
  /\ mipSlider' = Some([min |-> 0, max |-> Max(0, n - 1)])

\* the change event: the handler runs up to the first await of the loader
SelectFile(f) ==
  /\ features # None
  /\ NoMicrotaskPending
  /\ Len(selected) < Cardinality(Loads)
  /\ selected' = Append(selected, f)
  /\ LET during == \E l \in 1 .. Len(loads) : InFlight(l)
     IN IF f.kind = "ktx2"
        THEN IF ~Val(features).bc
             THEN loads' = Append(loads, [pc |-> "failed", error |-> "BCUnsupported",
                                          during |-> during])
             ELSE loads' = Append(loads, [pc |-> "waitParser", error |-> "",
                                          during |-> during])
        ELSE loads' = Append(loads, [pc |-> "bitmap", error |-> "", during |-> during])
  /\ KeepDisplay
  /\ UNCHANGED <<features, loaderVars, fzstdLoaded, callerVars, parseVars, sessionVars,
                 fnVars, ktxVars>>

\* await waitForKTXParser(), lines 76-82 and 604
ParserWaited(l, ok) ==
  /\ l <= Len(loads) /\ loads[l].pc = "waitParser"
  /\ NoMicrotaskPending
  /\ IF ok THEN loads' = [loads EXCEPT ![l].pc = "arrayBuffer"]
     ELSE Fail(l, "ParserNotLoaded")
  /\ KeepDisplay
  /\ UNCHANGED <<features, selected, loaderVars, fzstdLoaded, callerVars, parseVars,
                 sessionVars, fnVars, ktxVars>>

\* const buf = await file.arrayBuffer(), line 606
BufferRead(l, ok) ==
  /\ l <= Len(loads) /\ loads[l].pc = "arrayBuffer"
  /\ NoMicrotaskPending
  /\ IF ok THEN loads' = [loads EXCEPT ![l].pc = "parse"]
     ELSE Fail(l, "FileUnreadable")
  /\ KeepDisplay
  /\ UNCHANGED <<features, selected, loaderVars, fzstdLoaded, callerVars, parseVars,
                 sessionVars, fnVars, ktxVars>>

\* await window.parseKTX2(buf, device) (line 608) settles and the rest of
\* loadKTX2_ToTexture, which has no further await, runs: lines 610-875
ParseSettled(l, outcome) ==
  /\ l <= Len(loads) /\ loads[l].pc = "parse"
  /\ NoMicrotaskPending
  /\ outcome \in ParseOutcomes(selected[l])
  /\ LET f == selected[l]
         n == Max(1, f.levelCount)
         r == ResolveFormat(f, Level0(f, outcome), Val(features))
     IN IF outcome = "threw"
        THEN Fail(l, "ParseFailed") /\ KeepDisplay
        ELSE IF r.error # ""
        THEN Fail(l, r.error) /\ KeepDisplay
        ELSE IF outcome = "bareOutside"
        THEN \* line 748: getLevelData raises a RangeError for level 0, after
             \* the texture was created and before mipCount is assigned
             /\ CreateSrcTex(l, r.format, n)
             /\ Fail(l, "UploadFailed")
             /\ UNCHANGED <<mipCount, mipSlider, currentMip, applied, uploads>>
        ELSE /\ CreateSrcTex(l, r.format, n)
             /\ uploads' = uploads \cup
                  { [texture |-> Len(textures) + 1, mipLevel |-> k, by |-> l] :
                      k \in 0 .. n - 1 }
             /\ SetMipState(n)
             /\ loads' = [loads EXCEPT ![l].pc = "done"]
             /\ UNCHANGED applied
  /\ UNCHANGED <<features, selected, loaderVars, fzstdLoaded, callerVars, parseVars,
                 sessionVars, fnVars, ktxVars>>

\* const bmp = await createImageBitmap(file, ...) settles; lines 515-529 run
BitmapDecoded(l, ok) ==
  /\ l <= Len(loads) /\ loads[l].pc = "bitmap"
  /\ NoMicrotaskPending
  /\ IF ok
     THEN /\ CreateSrcTex(l, "rgba8unorm", selected[l].levels)
          /\ loads' = [loads EXCEPT ![l].pc = "mipImages"]
     ELSE /\ Fail(l, "ImageUndecodable")
          /\ UNCHANGED <<srcTex, srcView, textures>>
  /\ UNCHANGED <<features, selected, mipCount, mipSlider, currentMip, applied, uploads,
                 loaderVars, fzstdLoaded, callerVars, parseVars, sessionVars, fnVars, ktxVars>>

\* the await of createMipImages(bmp) resumes; lines 530-558 run: the mips are
\* written into the texture srcTex names
MipImagesReady(l) ==
  /\ l <= Len(loads) /\ loads[l].pc = "mipImages"
  /\ uploads' = uploads \cup
       { [texture |-> Val(srcTex), mipLevel |-> k, by |-> l] :
           k \in 0 .. selected[l].levels - 1 }
  /\ srcView' = srcTex
  /\ SetMipState(selected[l].levels)
  /\ loads' = [loads EXCEPT ![l].pc = "done"]
  /\ UNCHANGED <<features, selected, srcTex, textures, applied, loaderVars, fzstdLoaded,
                 callerVars, parseVars, sessionVars, fnVars, ktxVars>>

\* applySelectedMip(), lines 981-988: either branch makes a new view of
\* srcTex; with the mip-only box checked the view starts at currentMip.
\* `applied` keeps what the run saw.
ApplySelectedMip ==
  /\ srcView' = srcTex
  /\ applied' = Some([mip |-> currentMip', mipCount |-> mipCount,
                      texMips |-> textures[Val(srcTex)].mips])

\* mipSlider.oninput, lines 484-488: the slider delivers a value of its range
SliderInput(v) ==
  /\ features # None
  /\ NoMicrotaskPending
  /\ mipSlider # None
  /\ v >= Val(mipSlider).min /\ v <= Val(mipSlider).max
  /\ currentMip' = v
  /\ ApplySelectedMip
  /\ UNCHANGED <<features, selected, loads, srcTex, mipCount, mipSlider, textures,
                 uploads, loaderVars, fzstdLoaded, callerVars, parseVars, sessionVars,
                 fnVars, ktxVars>>

\* mipOnlyBox.onchange, lines 489-491
MipOnlyToggled ==
  /\ features # None
  /\ NoMicrotaskPending
  /\ currentMip' = currentMip
  /\ ApplySelectedMip
  /\ UNCHANGED <<features, selected, loads, srcTex, mipCount, mipSlider, textures,
                 uploads, loaderVars, fzstdLoaded, callerVars, parseVars, sessionVars,
                 fnVars, ktxVars>>

\* lines 467-483: the checkerboard placeholder, its view, currentMip = 0,
\* mipCount = 1, on a device with the features feat
InitViewOn(feat) ==
  /\ FreshLoader
  /\ fzstdLoaded = FALSE
  /\ callerPc = [c \in Callers |-> "idle"]
  /\ callerGot = [c \in Callers |-> 0]
  /\ NoParse /\ NoSession /\ NoCall
  /\ features = Some(feat)
  /\ selected = <<>> /\ loads = <<>>
  /\ textures = << [owner |-> 0, format |-> "rgba8unorm", mips |-> 1,
                    destroyed |-> FALSE] >>
  /\ uploads = { [texture |-> 1, mipLevel |-> 0, by |-> 0] }
  /\ srcTex = Some(1) /\ srcView = Some(1)
  /\ mipCount = 1 /\ mipSlider = None
  /\ currentMip = 0 /\ applied = None
  /\ NoKtx

InitView == \E feat \in FeatureSets : InitViewOn(feat)

NextView ==
  \/ \E f \in ViewFiles : SelectFile(f)
  \/ \E l \in Loads : \E ok \in BOOLEAN : ParserWaited(l, ok)
  \/ \E l \in Loads : \E ok \in BOOLEAN : BufferRead(l, ok)
  \/ \E l \in Loads : \E o \in {"threw", "decoded", "bare", "bareOutside"} :
       ParseSettled(l, o)
  \/ \E l \in Loads : \E ok \in BOOLEAN : BitmapDecoded(l, ok)
  \/ \E l \in Loads : MipImagesReady(l)

\* The viewer with up to two file selections, on any device, the mip controls
\* left alone.
SpecView == InitView /\ [][NextView]_vars

\* the files and devices of the viewer with its mip controls in use: two
\* images, 2D .ktx2 files of a plain, an ETC2 and an unmapped format, a
\* cubemap; devices with BC and ASTC, with and without ETC2
ControlFiles ==
  ImageFiles \cup
  { f \in KTX2Files :
      /\ f.supercompressionScheme = SUPERCOMPRESSION_NONE
      /\ \/ f.vkFormat = 37
         \/ f.vkFormat \in {152, 9999} /\ f.levelCount = 1 }

ControlFeatureSets == { feat \in FeatureSets : feat.bc /\ feat.astc }

\* the values the slider can deliver: the levels of the largest image
SliderValues == 0 .. 2

InitControls == \E feat \in ControlFeatureSets : InitViewOn(feat)

NextControls ==
  \/ \E f \in ControlFiles : SelectFile(f)
  \/ \E l \in Loads : \E ok \in BOOLEAN : ParserWaited(l, ok)
  \/ \E l \in Loads : \E ok \in BOOLEAN : BufferRead(l, ok)
  \/ \E l \in Loads : \E o \in {"threw", "decoded", "bare", "bareOutside"} :
       ParseSettled(l, o)
  \/ \E l \in Loads : \E ok \in BOOLEAN : BitmapDecoded(l, ok)
  \/ \E l \in Loads : MipImagesReady(l)
  \/ \E v \in SliderValues : SliderInput(v)
  \/ MipOnlyToggled

\* The viewer with up to two file selections and any use of the mip slider
\* and of the mip-only box.
SpecControls == InitControls /\ [][NextControls]_vars

(***************************************************************************)
(* parseKVD (read.js 541-559) iteration by iteration.  The block is given  *)
(* by its entries, laid out from baseOffset as the cursor rule places      *)
(* them; the bytes after the last listed entry are zero.  ret holds the    *)
(* locals of the running call: the cursor, kv, the entries not yet read,   *)
(* the number of entries read, and how the call ended.                     *)
(***************************************************************************)
\* the entries a block may hold: the zero length prefix, "a\0x", "a\0y",
\* "b\0xy", five bytes without a NUL, and an entry longer than the buffer
KVEntryInputs ==
  { [kvByteLength |-> 0, key |-> "", value |-> "", nul |-> FALSE],
    [kvByteLength |-> 3, key |-> "a", value |-> "x", nul |-> TRUE],
    [kvByteLength |-> 3, key |-> "a", value |-> "y", nul |-> TRUE],
    [kvByteLength |-> 4, key |-> "b", value |-> "xy", nul |-> TRUE],
    [kvByteLength |-> 5, key |-> "", value |-> "", nul |-> FALSE],
    [kvByteLength |-> 300, key |-> "a", value |-> "x", nul |-> TRUE] }

KVBlockInputs ==
  { <<>> } \cup { <<e>> : e \in KVEntryInputs }
    \cup { <<e1, e2>> : e1, e2 \in KVEntryInputs }
    \cup { <<e1, e2, e3>> : e1, e2, e3 \in KVEntryInputs }

\* parseKVD(dv, baseOffset, length) on a buffer of SessionBufLen bytes
KVDCalls ==
  { [fn |-> "parseKVD", es |-> es, baseOffset |-> 196, length |-> n] :
      es \in KVBlockInputs, n \in {0, 6, 8, 16, 24, 60, 64} }

\* lines 542-543
EnterParseKVD ==
  /\ call # None /\ Val(call).fn = "parseKVD"
  /\ ret = None
  /\ ret' = Some([offset |-> Val(call).baseOffset, kv |-> {}, rest |-> Val(call).es,
                  read |-> 0, status |-> "running"])
  /\ UNCHANGED <<call, ktxVars, loaderVars, fzstdLoaded, callerVars, parseVars, sessionVars,
                 viewVars>>

\* the loop test at line 544 and, when it passes, one iteration (545-557)
KVDIteration ==
  /\ call # None /\ Val(call).fn = "parseKVD"
  /\ ret # None /\ Val(ret).status = "running"
  /\ LET st == Val(ret)
         e == IF st.rest = <<>>
              THEN [kvByteLength |-> 0, key |-> "", value |-> "", nul |-> FALSE]
              ELSE Head(st.rest)
     IN ret' = Some(
          IF st.offset >= Val(call).baseOffset + Val(call).length
          THEN [st EXCEPT !.status = "returned"]
          ELSE IF st.offset + 4 > SessionBufLen
          THEN \* getUint32 past the end of the buffer
               [st EXCEPT !.status = "RangeError"]
          ELSE IF e.kvByteLength = 0
          THEN \* line 546: break
               [st EXCEPT !.offset = st.offset + 4, !.status = "returned"]
          ELSE IF st.offset + 4 + e.kvByteLength > SessionBufLen
          THEN \* line 547: new Uint8Array over a range outside the buffer
               [st EXCEPT !.offset = st.offset + 4, !.status = "RangeError"]
          ELSE [st EXCEPT !.offset = KVDAdvance(st.offset, e.kvByteLength),
                          !.kv = KVPut(st.kv, e),
                          !.rest = Tail(st.rest),
                          !.read = st.read + 1])
  /\ UNCHANGED <<call, ktxVars, loaderVars, fzstdLoaded, callerVars, parseVars, sessionVars,
                 viewVars>>

InitKVD ==
  /\ FreshLoader
  /\ fzstdLoaded = FALSE
  /\ callerPc = [c \in Callers |-> "idle"]
  /\ callerGot = [c \in Callers |-> 0]
  /\ NoParse /\ NoSession /\ NoView /\ NoKtx
  /\ \E c \in KVDCalls : call = Some(c)
  /\ ret = None

NextKVD ==
  \/ EnterParseKVD
  \/ KVDIteration

\* One call of parseKVD; the call, once made, keeps running.
SpecKVD == InitKVD /\ [][NextKVD]_vars /\ WF_vars(NextKVD)

(***************************************************************************)
(* The libktx transcoder (src/unnamed/part_001): initLibKTX (8-37) and     *)
(* transcodeFullKTX2 (132-203).  window.LIBKTX is the factory of the       *)
(* libktx module; the instance a call of it gives is named by the number   *)
(* of that call.  A ktxTexture is a handle on memory of the module: what   *)
(* getImage returns is a view of that memory, valid until the handle is    *)
(* deleted.  Each caller calls one of the two functions once.              *)
(***************************************************************************)
\* the callers of initLibKTX and transcodeFullKTX2
TranscodeCallers == 1 .. NumTranscodeCallers

KtxFunctions == {"initLibKTX", "transcodeFullKTX2"}

\* What the libktx texture of one call of transcodeFullKTX2 does: whether
\* the constructor raises, whether the handle has a needsTranscoding method,
\* its vkFormat, numLevels (0: the property is missing) and base size, what
\* transcodeBasis gives, whether getImage exists, and the level at which it
\* raises (numLevels or more: it does not).
TextureAnswers ==
  [ ctor : {"ok", "raises"},
    needsTranscoding : BOOLEAN,
    vkFormat : {0, 145},
    transcodeBasis : {"true", "false", "raises"},
    numLevels : {0, 2},
    baseWidth : {4},
    baseHeight : {1},
    getImage : {"present", "missing"},
    raisesAt : {0, 1, 2} ]

\* texture.getImage(level, 0, 0): a typed-array view of the module's memory
GetImage(level) == [store |-> "wasm", level |-> level]

\* A variant of the copy that keeps the view it was given.
MipView(mipData, deletes) == [store |-> mipData.store, intact |-> deletes = 0]

\* new Uint8Array(mipData), line 186: the bytes of the view are copied into
\* memory of the caller; they are those of the image if the handle has not
\* been deleted
MipCopy(mipData, deletes) == [store |-> "js", intact |-> deletes = 0]

\* x >> n for 0 <= x, as lines 190 and 191 use it
ShiftRight(x, n) == x \div Pow2(n)

\* A variant of the finally block that leaves the handle alone.
FinallyNothing(texture) == texture

\* finally { if (texture && texture.delete) texture.delete(); }, lines 200-202;
\* a handle of the libktx binding has its delete method
Finally(texture) ==
  IF texture # None THEN Some([Val(texture) EXCEPT !.deletes = @ + 1]) ELSE None

\* the try block, lines 136-196, for a texture that answers a: the handle
\* created (absent if the constructor raised), the mips returned, and the
\* error thrown ("" if the block returned)
TryBlock(a) ==
  LET texture == [deletes |-> 0]
      shouldTranscode ==
        \* line 148 assigns the method itself, which is truthy
        IF a.needsTranscoding THEN TRUE ELSE a.vkFormat = 0
      numLevels == IF a.numLevels = 0 THEN 1 ELSE a.numLevels
      raisesAt == IF a.raisesAt < numLevels THEN a.raisesAt ELSE numLevels
      mips == [ k \in 1 .. numLevels |->
                  [ data |-> MipCopy(GetImage(k - 1), texture.deletes),
                    width |-> Max(1, ShiftRight(a.baseWidth, k - 1)),
                    height |-> Max(1, ShiftRight(a.baseHeight, k - 1)) ] ]
      threw ==
        IF shouldTranscode /\ a.transcodeBasis = "raises" THEN "TranscodeRaised"
        ELSE IF shouldTranscode /\ a.transcodeBasis = "false" THEN "TranscodeFailed"
        ELSE IF a.getImage = "missing" THEN "GetImageMissing"
        ELSE IF raisesAt < numLevels THEN "GetImageRaised"
        ELSE ""
  IN IF a.ctor = "raises"
     THEN [texture |-> None, mips |-> <<>>, error |-> "CreateFailed"]
     ELSE [ texture |-> Some(texture),
            mips |-> IF threw = "" THEN mips ELSE <<>>,
            error |-> threw ]

\* transcodeFullKTX2 after its await, lines 135-202: the try block, then the
\* finally block on every way out of it
TranscodeBody(a) ==
  LET r == TryBlock(a)
  IN [r EXCEPT !.texture = Finally(r.texture)]

\* a caller that has not called yet
IdleCaller(fn) ==
  [fn |-> fn, pc |-> "idle", token |-> 0, m |-> None, texture |-> None,
   mips |-> <<>>, error |-> ""]

\* the call of initLibKTX, directly or at line 133, up to its await (8-18)
CallInitLibKTX(c) ==
  /\ libktx # None
  /\ transcodes[c].pc = "idle"
  /\ IF ktxModule # None
     THEN /\ transcodes' = [transcodes EXCEPT
               ![c].m = ktxModule,
               ![c].pc = IF transcodes[c].fn = "initLibKTX" THEN "returned" ELSE "resumed"]
          /\ UNCHANGED libktx
     ELSE IF ~Val(libktx).defined
     THEN /\ transcodes' = [transcodes EXCEPT ![c].pc = "threw",
                                              ![c].error = "LIBKTXMissing"]
          /\ UNCHANGED libktx
     ELSE /\ libktx' = Some([Val(libktx) EXCEPT !.calls = @ + 1])
          /\ transcodes' = [transcodes EXCEPT ![c].pc = "factory",
                                              ![c].token = Val(libktx).calls + 1]
  /\ UNCHANGED <<ktxModule, loaderVars, fzstdLoaded, callerVars, parseVars, sessionVars,
                 fnVars, viewVars>>

\* the promise of window.LIBKTX({...}) settles: lines 18-36
FactorySettled(c, ok) ==
  /\ libktx # None
  /\ transcodes[c].pc = "factory"
  /\ IF ok
     THEN /\ ktxModule' = Some(transcodes[c].token)
          /\ transcodes' = [transcodes EXCEPT
               ![c].m = Some(transcodes[c].token),
               ![c].pc = IF transcodes[c].fn = "initLibKTX" THEN "returned" ELSE "resumed"]
     ELSE /\ transcodes' = [transcodes EXCEPT ![c].pc = "threw",
                                              ![c].error = "InitFailed"]
          /\ UNCHANGED ktxModule
  /\ UNCHANGED <<libktx, loaderVars, fzstdLoaded, callerVars, parseVars, sessionVars,
                 fnVars, viewVars>>

\* transcodeFullKTX2 resumes with the module and runs to its end: 135-202
TranscodeRest(c, a) ==
  /\ libktx # None
  /\ transcodes[c].pc = "resumed"
  /\ LET r == TranscodeBody(a)
     IN transcodes' = [transcodes EXCEPT
          ![c].texture = r.texture,
          ![c].mips = r.mips,
          ![c].error = r.error,
          ![c].pc = IF r.error = "" THEN "returned" ELSE "threw"]
  /\ UNCHANGED <<ktxModule, libktx, loaderVars, fzstdLoaded, callerVars, parseVars,
                 sessionVars, fnVars, viewVars>>

\* line 3: let ktxModule = null; libktx.js loaded or not
InitTranscoder ==
  /\ FreshLoader
  /\ fzstdLoaded = FALSE
  /\ callerPc = [c \in Callers |-> "idle"]
  /\ callerGot = [c \in Callers |-> 0]
  /\ NoParse /\ NoSession /\ NoCall /\ NoView
  /\ ktxModule = None
  /\ \E d \in BOOLEAN : libktx = Some([defined |-> d, calls |-> 0])
  /\ \E fns \in [TranscodeCallers -> KtxFunctions] :
       transcodes = [c \in TranscodeCallers |-> IdleCaller(fns[c])]

NextTranscoder ==
  \/ \E c \in TranscodeCallers : CallInitLibKTX(c)
  \/ \E c \in TranscodeCallers : \E ok \in BOOLEAN : FactorySettled(c, ok)
  \/ \E c \in TranscodeCallers : \E a \in TextureAnswers : TranscodeRest(c, a)

\* Callers of initLibKTX and of transcodeFullKTX2, in any interleaving.
SpecTranscoder == InitTranscoder /\ [][NextTranscoder]_vars

(***************************************************************************)
(* Properties                                                              *)
(***************************************************************************)

\* C1: in both Basis-family paths, when parseKTX2 returns, the levels carrying
\* a decode outcome are exactly levels 0..k-1, where k is the index of the
\* first level that failed to produce a payload (or the loop bound) and
\* k <= min(header level count, backend level count); levels k.. carry no
\* payload and no flag.
C1_DecodedLevelsArePrefix ==
  (pc = "returned" /\ BasisFamily) =>
    /\ i <= Min(Len(levels), transcoderLevelCount)
    /\ \A n \in 1 .. Len(levels) :
         IF n <= i THEN Decoded(levels[n]) ELSE Bare(levels[n])

\* C1 witness: three levels declared, the backend reports three, levels 0-1
\* are decoded and level 2 fails.
C1_Witness ==
  /\ pc = "returned" /\ BasisFamily
  /\ Len(levels) = 3 /\ transcoderLevelCount = 3 /\ i = 2
  /\ Decoded(levels[1]) /\ Decoded(levels[2]) /\ Bare(levels[3])

\* C2: in both Basis-family paths a backend file handle that was opened is
\* closed and deleted exactly once when parseKTX2 has returned or thrown, on
\* the exit paths the claim lists (startTranscoding returning false, zero
\* images, a level failing, the level-count query, the size query or
\* transcodeImage raising, normal completion).
C2_HandleReleasedOnEveryExit ==
  (Done /\ basisFile.opened /\ error \notin {"StartTranscodingRaised", "NumImagesRaised"}) =>
    (basisFile.closes = 1 /\ basisFile.deletes = 1)

\* C3: however many callers call loadBasisModule, in every interleaving, the
\* script is loaded at most once, the module is instantiated at most once,
\* and every caller that has been resumed holds the one module.
C3_SingleFlightInit ==
  /\ scriptLoads <= 1
  /\ instantiations <= 1
  /\ \A c \in Callers :
       callerPc[c] = "got" =>
         (BasisModule.kind = "module" /\ callerGot[c] = BasisModule.id /\ callerGot[c] = 1)
  /\ \A c \in Callers :
       callerPc[c] = "awaiting" => basisModulePromise # "null"

\* C3 witness: two callers are waiting on the same initialization, which is
\* still in flight.
C3_Witness ==
  \E c, d \in Callers :
    /\ c # d
    /\ callerPc[c] = "awaiting" /\ callerPc[d] = "awaiting"
    /\ basisModulePromise = "pending" /\ scriptLoads = 1

\* C4: a call of loadBasisModule made after an initialization has failed
\* starts a new initialization attempt.
C4_RetryAfterFailure ==
  [][ \A c \in Callers :
        (callerPc[c] = "idle" /\ callerPc'[c] = "awaiting"
           /\ basisModulePromise = "rejected")
        => basisModulePromise' = "pending" ]_vars

\* C5: the decode strategy is the one the dispatch table gives for
\* (supercompressionScheme, vkFormat), and only that strategy acts: under
\* passthrough no level receives a decode outcome and no collaborator is
\* used, under Zstandard no backend file is opened, under the Basis paths
\* nothing is decompressed.
C5_DispatchTable ==
  branch # "none" =>
    LET sc == Val(header).supercompressionScheme
        vk == Val(header).vkFormat
    IN /\ (sc = 0 /\ vk # 0) => branch = "passthrough"
       /\ (sc = 0 /\ vk = 0) => branch = "rawBasis"
       /\ sc = 1 => branch = "basisLZ"
       /\ sc = 2 => branch = "zstd"
       /\ branch = "passthrough" =>
            /\ pc = "returned"
            /\ \A n \in 1 .. Len(levels) : Bare(levels[n])
            /\ basisFile = NoFile /\ decompLog = <<>>
       /\ branch = "zstd" =>
            /\ basisFile = NoFile
            /\ \A n \in 1 .. Len(levels) : levels[n].transcodedFormat = None
       /\ BasisFamily =>
            /\ decompLog = <<>>
            /\ \A n \in 1 .. Len(levels) :
                 Decoded(levels[n]) => levels[n].transcodedFormat = Some(RGBA32)

\* C5 witness: scheme 1 with a non-zero format code returns with level 0
\* transcoded.
C5_Witness ==
  /\ pc = "returned"
  /\ Val(header).supercompressionScheme = 1 /\ Val(header).vkFormat # 0
  /\ Decoded(levels[1])

\* C6: with the container parsed, scheme 3 ends the parse with
\* UnsupportedSupercompression and a scheme outside 0..3 ends it with
\* UnknownSupercompression, for any format code; nothing is returned.
C6_ZlibAndUnknownFail ==
  (header # None /\ pc # "dispatch") =>
    LET sc == Val(header).supercompressionScheme IN
    /\ sc = 3 =>
         (pc = "threw" /\ error = "UnsupportedSupercompression" /\ ParsedTexture = None)
    /\ sc \notin {0, 1, 2, 3} =>
         (pc = "threw" /\ error = "UnknownSupercompression" /\ ParsedTexture = None)

\* C6 witness: scheme 3 with format code 0 has failed.
C6_Witness ==
  /\ header # None
  /\ Val(header).supercompressionScheme = 3 /\ Val(header).vkFormat = 0
  /\ pc = "threw"

\* C7: for a buffer that holds the 12 identifier bytes, parseKTX2 fails with
\* InvalidIdentifier, returning nothing, exactly when some byte of them
\* differs from the magic.
C7_IdentifierCheck ==
  (pc # "start" /\ bufLen >= IDENTIFIER_BYTES) =>
    /\ (ident # KTX2_IDENTIFIER) <=> (pc = "threw" /\ error = "InvalidIdentifier")
    /\ (ident # KTX2_IDENTIFIER) => ParsedTexture = None

\* C7 witness: only the last identifier byte is altered, in a buffer long
\* enough for the header, and the parse has failed.
C7_Witness ==
  /\ pc = "threw" /\ bufLen >= MIN_FILE_BYTES
  /\ ident[IDENTIFIER_BYTES] # KTX2_IDENTIFIER[IDENTIFIER_BYTES]
  /\ SubSeq(ident, 1, IDENTIFIER_BYTES - 1) = SubSeq(KTX2_IDENTIFIER, 1, IDENTIFIER_BYTES - 1)

\* C8: every buffer shorter than 80 bytes makes parseKTX2 fail with Truncated.
C8_ShortBufferTruncated ==
  (pc # "start" /\ bufLen < MIN_FILE_BYTES) => (pc = "threw" /\ error = "Truncated")

\* floor(x / 2^n) of the unsigned 32-bit x, as 16-bit halves
MathShr(x, n) ==
  IF n >= 32 THEN U32(0, 0)
  ELSE IF n >= 16 THEN U32(0, x.hi \div (2 ^ (n - 16)))
  ELSE U32(x.hi \div (2 ^ n), (((x.hi % (2 ^ n)) * 65536 + x.lo) \div (2 ^ n)) % 65536)

\* max(1, floor(x / 2^n))
MathDim(x, n) == IF MathShr(x, n) = U32(0, 0) THEN U32(0, 1) ELSE MathShr(x, n)

\* a non-negative integer of the model as 16-bit halves
AsU32(v) == U32(v \div 65536, v % 65536)

\* C9: every returned level n has width max(1, floor(pixelWidth / 2^n)) and
\* height max(1, floor(pixelHeight / 2^n)), for all unsigned 32-bit base
\* dimensions.
C9_LevelDimensions ==
  pc = "returned" =>
    \A n \in 1 .. Len(levels) :
      /\ AsU32(levels[n].width) = MathDim(Val(header).pixelWidth, n - 1)
      /\ AsU32(levels[n].height) = MathDim(Val(header).pixelHeight, n - 1)

\* C10: under Zstandard every level whose decompression succeeded has
\* isDecompressed = true and the decompressed bytes as payload, whatever
\* their length; the size warning is logged for exactly the levels whose
\* decompressed length differs from the declared one; and a parse fails only
\* for the library not loading, a level range outside the buffer or the
\* decompressor raising, never for a length mismatch.
C10_ZstdTolerantLoad ==
  branch = "zstd" =>
    /\ Len(decompLog) <= Len(levels)
    /\ \A n \in 1 .. Len(decompLog) :
         /\ levels[n].isDecompressed
         /\ levels[n].decompressedData = Some(decompLog[n])
         /\ (n - 1) \in warnings <=> decompLog[n] # levels[n].uncompressedByteLength
    /\ warnings \subseteq 0 .. Len(decompLog) - 1
    /\ pc = "threw" =>
         error \in {"FzstdLoadFailed", "FzstdUnavailable", "RangeError", "DecompressFailed"}
    /\ (Done /\ Len(decompLog) = Len(levels)) => pc = "returned"

\* C10 witness: a returned Zstandard texture whose level 0 decompressed to a
\* length other than the declared one (warning logged) and whose level 1
\* decompressed to the declared length (no warning).
C10_Witness ==
  /\ pc = "returned" /\ branch = "zstd" /\ Len(levels) >= 2
  /\ 0 \in warnings /\ 1 \notin warnings
  /\ levels[1].decompressedData = Some(8) /\ levels[1].uncompressedByteLength = 16
  /\ levels[1].isDecompressed /\ levels[2].isDecompressed

\* C11: in neither Basis-family path does a failure while decoding one level
\* (size 0, transcodeImage returning failure, the size query or
\* transcodeImage raising) leave parseKTX2 as an exception.
C11_LevelFailureAbsorbed ==
  (BasisFamily /\ pc = "threw") => error \notin {"SizeQueryRaised", "TranscodeRaised"}

\* C12: in both Basis-family paths, when startTranscoding() has returned
\* false the parse fails as a whole with TranscodeInitFailed: no level is
\* attempted, no level carries a decode outcome and nothing is returned.
C12_StartFailureIsFatal ==
  (BasisFamily /\ basisFile.opened /\ Val(oracle).start = "false"
     /\ pc # "startTranscoding") =>
    /\ pc = "threw" /\ error = "TranscodeInitFailed"
    /\ ParsedTexture = None
    /\ i = 0 /\ transcoderLevelCount = 0
    /\ \A n \in 1 .. Len(levels) : Bare(levels[n])

\* C12 witness: the BasisLZ path with two levels declared has failed after
\* startTranscoding() returned false.
C12_Witness ==
  /\ branch = "basisLZ" /\ basisFile.opened /\ Val(oracle).start = "false"
  /\ pc = "threw" /\ Len(levels) = 2

\* C13: when the first parse of a buffer returned, the second parse of the
\* same buffer, with the same answers from backend and decompressor, returns
\* a ParsedTexture equal to the first (header, index, levels with their
\* decode outcomes, DFD, KVD).
C13_SecondParseIdentical ==
  (round = 2 /\ Done) => (pc = "returned" /\ ParsedTexture = first)

\* C13 witness: the second parse has returned a BasisLZ texture with level 0
\* decoded and level 1 not, the backend module having been initialised once.
C13_Witness ==
  /\ round = 2 /\ pc = "returned" /\ branch = "basisLZ"
  /\ Len(levels) >= 2 /\ Decoded(levels[1]) /\ Bare(levels[2])
  /\ scriptLoads = 1 /\ instantiations = 1 /\ BasisModule.id = instantiations

\* The call of applyDFDCorrections that has returned, if any.
ApplyReturned ==
  call # None /\ Val(call).fn = "applyDFDCorrections" /\ ret # None

\* The DFD of the call states a block size other than that of the descriptor.
DfdSizeDiffers ==
  /\ Val(call).formatInfo # None /\ Val(call).dfd # None
  /\ Val(Val(call).formatInfo).blockWidth # 0
  /\ Val(Val(call).dfd).bytesPlane0 # Val(Val(call).formatInfo).bytesPerBlock

\* C15: applyDFDCorrections returns a descriptor none of whose fields other
\* than the block size and the format tag differ from the input's; when the
\* input is a block format and the DFD's first-plane byte count differs from
\* the descriptor's bytesPerBlock and is not zero, the result's bytesPerBlock
\* is the DFD's value, and for the format codes 148..154 the tag becomes the
\* 8-byte RGB / RGB+A1 variant (by colour model) at 8 bytes and the RGBA
\* variant at 16 bytes; in every other case the descriptor comes back
\* unchanged; and correcting the corrected descriptor changes nothing.
C15_DFDCorrection ==
  ApplyReturned =>
    LET c == Val(call)
        out == Val(ret)
    IN IF DfdSizeDiffers /\ Val(c.dfd).bytesPlane0 # 0
       THEN LET f == Val(c.formatInfo)
                b == Val(c.dfd).bytesPlane0
                etc == c.vkFormat >= 148 /\ c.vkFormat <= 154
            IN /\ out # None
               /\ Val(out).bytesPerBlock = b
               /\ [Val(out) EXCEPT !.bytesPerBlock = 0, !.format = ""]
                    = [f EXCEPT !.bytesPerBlock = 0, !.format = ""]
               /\ etc /\ b = 8 =>
                    Val(out).format =
                      IF Val(c.dfd).colorModel = 162 THEN "etc2-rgb8a1unorm"
                      ELSE "etc2-rgb8unorm"
               /\ etc /\ b = 16 => Val(out).format = "etc2-rgba8unorm"
               /\ ~etc \/ b \notin {8, 16} => Val(out).format = f.format
               /\ c.again => out = c.formatInfo
       ELSE out = c.formatInfo

\* C15 as stated: whenever the DFD's first-plane byte count differs from the
\* descriptor's bytesPerBlock, the result's bytesPerBlock is the DFD's value.
C15_DFDAlwaysWins ==
  ApplyReturned /\ DfdSizeDiffers =>
    Val(ret) # None /\ Val(Val(ret)).bytesPerBlock = Val(Val(call).dfd).bytesPlane0

\* A 16-byte ETC2 descriptor (code 154) corrected by a DFD of 8 bytes per
\* block with colour model 162, and the result corrected once more.
C15_Witness ==
  /\ ApplyReturned
  /\ Val(call).vkFormat = 154 /\ Val(call).again
  /\ Val(call).dfd = Some([colorModel |-> 162, bytesPlane0 |-> 8])
  /\ Val(Val(ret)).format = "etc2-rgb8a1unorm" /\ Val(Val(ret)).bytesPerBlock = 8

\* The padding call that has returned, if any.
PadReturned ==
  call # None /\ Val(call).fn \in {"padRows", "padBlockRowsBC"} /\ ret # None

\* The unpadded row size and the row count the statement of C17 gives.
ClaimedRowBytes ==
  IF Val(call).fn = "padRows" THEN Val(call).width * Val(call).bytesPerPixel
  ELSE Ceil(Val(call).width, Val(call).blockWidth) * Val(call).bytesPerBlock

ClaimedRows ==
  IF Val(call).fn = "padRows" THEN Val(call).height
  ELSE Ceil(Val(call).height, Val(call).blockHeight)

\* The layout the statement of C17 gives for the result of the call.
PaddedAsClaimed ==
  LET r == Val(ret)
      src == PadSrc(Val(call))
      rowBytes == ClaimedRowBytes
      rows == ClaimedRows
      pitch == r.bytesPerRow
  IN /\ pitch % 256 = 0 /\ pitch >= rowBytes /\ pitch - rowBytes < 256
     /\ IF rowBytes % 256 = 0
        THEN ~r.fresh /\ r.data = src
        ELSE /\ r.fresh
             /\ Len(r.data) = pitch * rows
             /\ \A y \in 0 .. rows - 1 : \A x \in 0 .. pitch - 1 :
                  r.data[y * pitch + x + 1] =
                    IF x < rowBytes THEN src[y * rowBytes + x + 1] ELSE 0
     /\ Val(call).fn = "padBlockRowsBC" => r.rowsPerImage = rows

C18_LevelAccessor ==
  (call # None /\ Val(call).fn = "getLevelData" /\ ret # None) =>
    LET l == levels[Val(call).level + 1]
        r == Val(ret)
    IN /\ IF l.isDecompressed /\ l.decompressedData # None
          THEN r.kind = "payload" /\ r.length = Val(l.decompressedData)
          ELSE InBuffer(l.byteOffset, l.byteLength) =>
                 /\ r.kind = "slice"
                 /\ r.byteOffset = l.byteOffset /\ r.length = l.byteLength
       /\ branch = "passthrough" =>
            /\ Bare(l)
            /\ InBuffer(l.byteOffset, l.byteLength) => r.length = l.byteLength

\* The load l has finished, one way or the other.
Finished(l) == l <= Len(loads) /\ loads[l].pc \in {"done", "failed"}

\* The load l created no texture and uploaded nothing.
TouchedNothing(l) ==
  /\ \A t \in 1 .. Len(textures) : textures[t].owner # l
  /\ \A u \in uploads : u.by # l

\* C14: when the second file was selected while the first load was in flight
\* and both loads have finished successfully, the texture on display and its
\* view are the texture the second load created, and mipCount and the
\* slider range are those of the second file.
C14_LatestSelectionWins ==
  (Finished(1) /\ Finished(2) /\ loads[2].during
     /\ loads[1].pc = "done" /\ loads[2].pc = "done") =>
    LET n == IF selected[2].kind = "ktx2" THEN Max(1, selected[2].levelCount)
             ELSE selected[2].levels
    IN /\ textures[Val(srcTex)].owner = 2
       /\ srcView = srcTex
       /\ mipCount = n
       /\ mipSlider = Some([min |-> 0, max |-> n - 1])

\* C16: a finished load of a .ktx2 file whose (non-zero) format code has no
\* entry in the format table has failed, having created no texture and
\* uploaded no level, whatever the scheme and the device features.
C16_UnmappedFormatRejected ==
  \A l \in Loads :
    (Finished(l) /\ selected[l].kind = "ktx2"
       /\ selected[l].vkFormat # 0 /\ VkFormatToWebGPU(selected[l].vkFormat) = None) =>
      loads[l].pc = "failed" /\ TouchedNothing(l)

\* C19: a finished load of a .ktx2 file that is an array (layerCount > 1), a
\* cubemap (faceCount # 1) or 3D (pixelDepth # 0) has failed, having created
\* no texture and uploaded no level.
C19_Non2DRejected ==
  \A l \in Loads :
    (Finished(l) /\ selected[l].kind = "ktx2"
       /\ (selected[l].layerCount > 1 \/ selected[l].faceCount # 1
             \/ selected[l].pixelDepth # 0)) =>
      loads[l].pc = "failed" /\ TouchedNothing(l)

\* C20: for every buffer whose container part parses, parseKTX2 builds
\* exactly max(1, header.levelCount) level descriptors, and level k's byte
\* offset, byte length and declared uncompressed length are the 64-bit
\* fields of the buffer at offsets 80 + 24k, 88 + 24k and 96 + 24k.
C20_LevelIndexLayout ==
  header # None =>
    /\ Len(levels) = Max(1, Val(content).h.levelCount)
    /\ \A k \in 0 .. Len(levels) - 1 :
         /\ levels[k + 1].byteOffset = Val(content).u64[80 + 24 * k]
         /\ levels[k + 1].byteLength = Val(content).u64[88 + 24 * k]
         /\ levels[k + 1].uncompressedByteLength = Val(content).u64[96 + 24 * k]

\* C20 witness: a buffer declaring three levels has been parsed and returned;
\* level 2 lies at byte 216 of the buffer.
C20_Witness ==
  /\ pc = "returned"
  /\ Val(content).h.levelCount = 3 /\ Len(levels) = 3
  /\ levels[3].byteOffset = 216 /\ Val(content).u64[128] = 216

\* The decode outcome of a level descriptor.
Outcome(l) == <<l.isDecompressed, l.decompressedData, l.transcodedFormat>>

\* C21: within one parse, after container parsing, the loop index never
\* decreases and moves by at most one per step; the only level whose decode
\* outcome a step writes is level i (the one the loop is at), the step then
\* moves on to level i + 1, and the outcome it writes replaces an unset one:
\* a set outcome is never cleared or overwritten.
C21_SequentialWriteOnce ==
  [][ pc # "start" =>
        /\ i' \in {i, i + 1}
        /\ Len(levels') = Len(levels)
        /\ \A k \in 1 .. Len(levels) :
             Outcome(levels'[k]) # Outcome(levels[k]) =>
               /\ k = i + 1 /\ i' = i + 1
               /\ Bare(levels[k]) /\ Decoded(levels'[k]) ]_vars

\* Three levels decoded one after the other, the parse returned.
C21_Witness ==
  /\ pc = "returned" /\ Len(levels) = 3 /\ i = 3
  /\ \A k \in 1 .. 3 : Decoded(levels[k])

\* The fields of a level descriptor that container parsing sets.
Geometry(l) == <<l.byteOffset, l.byteLength, l.uncompressedByteLength, l.width, l.height>>

\* C22: from the end of container parsing until parseKTX2 returns or throws,
\* no step changes the header, the block index, the DFD, the KVD, the number
\* of levels or any level's byteOffset, byteLength, uncompressedByteLength,
\* width and height, and no step changes the bytes of the input buffer.
C22_ResolutionFrame ==
  [][ (pc # "start" /\ pc' # "start") =>
        /\ header' = header /\ index' = index /\ dfd' = dfd /\ kvd' = kvd
        /\ Len(levels') = Len(levels)
        /\ \A k \in 1 .. Len(levels) : Geometry(levels'[k]) = Geometry(levels[k])
        /\ content' = content /\ bufLen' = bufLen /\ ident' = ident ]_vars

\* A returned texture with a DFD, two levels and both of them decoded.
C22_Witness ==
  /\ pc = "returned" /\ dfd # None /\ Len(levels) = 2
  /\ Decoded(levels[1]) /\ Decoded(levels[2])
  /\ Geometry(levels[2]) = <<Val(content).u64[104], Val(content).u64[112],
                             Val(content).u64[120], levels[2].width, levels[2].height>>

\* The call of parseKVD is running or has ended.
KVDEntered == call # None /\ Val(call).fn = "parseKVD" /\ ret # None

\* The entries of the call's block that were read (stored or skipped for
\* want of a NUL) before the parse ended.
KVDEntriesRead == SubSeq(Val(call).es, 1, Val(ret).read)

\* C23: parseKVD terminates on every block of the model (it returns, or a
\* read beyond the buffer raises); every iteration moves the cursor forward,
\* and past a stored or skipped entry by 4 + length + (4 - length % 4) % 4,
\* which keeps it 4-byte aligned relative to the block start; a zero length
\* prefix ends the parse without an error; and what is returned holds, for
\* each key among the entries read that hold a NUL, the value of the last
\* such entry with that key, and nothing else.
C23_ParseKVDTerminates ==
  /\ <>(KVDEntered /\ Val(ret).status # "running")
  /\ [][ (KVDEntered /\ ret' # ret) =>
           /\ Val(ret').status = "running" =>
                /\ Val(ret').offset =
                     Val(ret).offset + 4 + Head(Val(ret).rest).kvByteLength
                       + ((4 - (Head(Val(ret).rest).kvByteLength % 4)) % 4)
                /\ (Val(ret').offset - Val(call).baseOffset) % 4 = 0
           /\ (Val(ret').status = "running" \/ Val(ret').offset # Val(ret).offset)
                => Val(ret').offset > Val(ret).offset
           /\ (Val(ret).offset < Val(call).baseOffset + Val(call).length
                 /\ Val(ret).offset + 4 <= SessionBufLen
                 /\ (Val(ret).rest = <<>> \/ Head(Val(ret).rest).kvByteLength = 0))
                => Val(ret').status = "returned" ]_vars
  /\ [](KVDEntered /\ Val(ret).status = "returned" =>
          LET es == KVDEntriesRead
              last(k) == CHOOSE n \in 1 .. Len(es) :
                           /\ es[n].nul /\ es[n].key = k
                           /\ \A m \in n + 1 .. Len(es) : ~(es[m].nul /\ es[m].key = k)
          IN Val(ret).kv =
               { <<es[n].key, es[last(es[n].key)].value>> :
                   n \in { m \in 1 .. Len(es) : es[m].nul } })

\* C23 as stated: what is returned is exactly the key/value pairs of the
\* entries read.
C23_ReturnsEveryPair ==
  (KVDEntered /\ Val(ret).status = "returned") =>
    Val(ret).kv = { <<KVDEntriesRead[n].key, KVDEntriesRead[n].value>> :
                      n \in { m \in 1 .. Val(ret).read : KVDEntriesRead[m].nul } }

\* A block holding "a\0x", "b\0xy" and a zero length prefix: two entries
\* read, the cursor 24 bytes on (8 + 8 + 4, then the prefix), both pairs back.
C23_Witness ==
  /\ KVDEntered /\ Val(ret).status = "returned"
  /\ Val(ret).read = 2 /\ Len(Val(call).es) = 3
  /\ Val(call).es[3].kvByteLength = 0
  /\ Val(ret).offset = Val(call).baseOffset + 20
  /\ Val(ret).kv = {<<"a", "x">>, <<"b", "xy">>}

\* C24: under scheme BasisLZ, whenever the level loop is about to handle a
\* level, the path the iteration takes is the UASTC path exactly when the
\* DFD's colour model is 166.
C24_PathByColorModel ==
  (branch = "basisLZ" /\ pc = "level" /\ i < SafeLevelCount) =>
    (LevelPath = "uastc" <=> IsUASTC)

\* n / 2^shift rounded to the nearest integer, ties to the even one.
RoundShift(n, shift) ==
  LET q == n \div Pow2(shift)
      r == n % Pow2(shift)
      half == Pow2(shift - 1)
  IN IF r > half \/ (r = half /\ q % 2 = 1) THEN q + 1 ELSE q

\* The IEEE-754 binary32-to-binary16 conversion, round to nearest even, of a
\* pattern that is not a NaN: the binary16 pattern as an integer.
ReferenceFloat16(x) ==
  LET s == x.sign * Pow2(15)
      he == x.exp - 112
  IN IF x.exp = 255 THEN s + 31 * Pow2(10)
     ELSE IF x.exp = 0 THEN s
     ELSE IF he >= 1
     THEN \* exponent and mantissa rounded as one number: a carry out of the
          \* mantissa moves to the next exponent, and past the last one to infinity
          Min(s + 31 * Pow2(10), s + RoundShift(he * Pow2(23) + x.mant, 13))
     ELSE IF 14 - he > 25 THEN s
     ELSE s + RoundShift(Pow2(23) + x.mant, 14 - he)

\* C25: on every pattern of the bounded set other than a NaN, float32ToFloat16
\* gives the pattern of the reference round-to-nearest conversion.
C25_MatchesReference ==
  (call # None /\ Val(call).fn = "float32ToFloat16" /\ ret # None
     /\ ~(Val(call).x.exp = 255 /\ Val(call).x.mant # 0)) =>
    Val(ret) = ReferenceFloat16(Val(call).x)

\* C26: a load of a Zstandard .ktx2 file whose vkFormat the format table maps
\* that ends well has created its texture with the format the table gives for
\* that vkFormat, as a load of the same file without supercompression does.
C26_ZstdUsesTableFormat ==
  \A l \in 1 .. Len(loads) :
    ( /\ loads[l].pc = "done"
      /\ selected[l].kind = "ktx2"
      /\ selected[l].supercompressionScheme = SUPERCOMPRESSION_ZSTD
      /\ VkFormatToWebGPU(selected[l].vkFormat) # None )
    => \E t \in 1 .. Len(textures) :
         /\ textures[t].owner = l
         /\ textures[t].format = Val(VkFormatToWebGPU(selected[l].vkFormat)).format

\* C29: whenever applySelectedMip has run, the mip it selected was at least 0,
\* at most mipCount - 1, and a level of the texture srcTex named.
C29_AppliedMipInRange ==
  applied # None =>
    /\ 0 <= Val(applied).mip
    /\ Val(applied).mip <= Val(applied).mipCount - 1
    /\ Val(applied).mip < Val(applied).texMips

\* the failures of loadKTX2_ToTexture in parsing, in the 2D test, in the
\* format resolution and in the ETC2 and ASTC guards
EarlyFailures ==
  {"ParseFailed", "Not2D", "UnsupportedFormat", "ETC2Unsupported", "ASTCUnsupported"}

\* C30: a step in which a load fails in parsing, in the 2D test, in the format
\* resolution or in a feature guard leaves srcTex, srcView, mipCount,
\* currentMip and the slider range as they were, and srcTex names a texture
\* that is not destroyed.
C30_EarlyFailureKeepsDisplay ==
  [][ \A l \in 1 .. Len(loads) :
        ( /\ loads[l].pc # "failed"
          /\ loads'[l].pc = "failed"
          /\ loads'[l].error \in EarlyFailures )
        => /\ srcTex' = srcTex
           /\ ~textures'[Val(srcTex')].destroyed
           /\ srcView' = srcView
           /\ mipCount' = mipCount
           /\ currentMip' = currentMip
           /\ mipSlider' = mipSlider ]_vars

\* a .ktx2 load has failed early while a three-level image is on display at
\* its last mip
C30_Witness ==
  \E l \in 1 .. Len(loads) :
    /\ loads[l].pc = "failed" /\ loads[l].error \in EarlyFailures
    /\ selected[l].kind = "ktx2"
    /\ mipCount = 3 /\ currentMip = 2
    /\ mipSlider = Some([min |-> 0, max |-> 2])
    /\ textures[Val(srcTex)].mips = 3
    /\ ~textures[Val(srcTex)].destroyed

\* C27: no two calls of the LIBKTX factory are in flight at once, and all
\* callers that got a module instance got the same one.
C27_FactoryInvokedOnce ==
  /\ Cardinality({ c \in DOMAIN transcodes : transcodes[c].pc = "factory" }) <= 1
  /\ \A c1, c2 \in DOMAIN transcodes :
       transcodes[c1].m # None /\ transcodes[c2].m # None
         => transcodes[c1].m = transcodes[c2].m

\* C28: when transcodeFullKTX2 has returned or thrown, the ktxTexture it
\* created, if any, has been deleted exactly once, and every mip payload it
\* returned is a copy in the caller's memory made while the handle was alive.
C28_TextureDeletedOnce ==
  \A c \in DOMAIN transcodes :
    ( transcodes[c].fn = "transcodeFullKTX2" /\ transcodes[c].pc \in {"returned", "threw"} )
    => /\ transcodes[c].texture # None => Val(transcodes[c].texture).deletes = 1
       /\ \A k \in 1 .. Len(transcodes[c].mips) :
            /\ transcodes[c].mips[k].data.store = "js"
            /\ transcodes[c].mips[k].data.intact

\* one call has returned two mips, another has thrown after its texture was
\* created
C28_Witness ==
  \E c1, c2 \in DOMAIN transcodes :
    /\ transcodes[c1].pc = "returned" /\ Len(transcodes[c1].mips) = 2
    /\ transcodes[c1].texture # None
    /\ transcodes[c2].pc = "threw" /\ transcodes[c2].texture # None
    /\ transcodes[c2].error \in {"TranscodeFailed", "GetImageMissing", "GetImageRaised"}

=============================================================================
